---------------------------- MODULE Spec2Model ----------------------------
(***************************************************************************)
(* A model of Lawmate (Landyson/LawMate): the text heuristics of           *)
(* lawmate_app/utils.py, the retrieval and ranking of                      *)
(* lawmate_app/rag/justice_api.py, the merge policy of Worker.run, the     *)
(* SQLite store of lawmate_app/db.py and the event handlers of             *)
(* lawmate_app/ui/main_window.py.                                          *)
(*                                                                         *)
(* Text is a sequence of Unicode code points (Python str, one element per  *)
(* character).  The character classes below are Python's, for the code     *)
(* points 0..382 (Basic Latin, Latin-1 Supplement, Latin Extended-A),      *)
(* which hold every character of the program's own term lists; every text  *)
(* the model feeds to the program is drawn from that range.                *)
(***************************************************************************)
EXTENDS Integers, Sequences, FiniteSets, TLC

VARIABLES
  \* ---- the application (MainWindow, Database, the background threads) ----
  cfg,                 \* AppConfig: llm_provider, the OpenAI key, the retrieval window
  sessions,            \* rows of table sessions, in insertion order
  messages,            \* rows of table messages, in insertion order
  seq_sessions,        \* sqlite_sequence of sessions: the largest id ever given
  seq_messages,        \* sqlite_sequence of messages
  current_session_id,  \* MainWindow.current_session_id, 0 for None
  send_enabled,        \* send_btn.isEnabled()
  input_enabled,       \* input.isEnabled()
  category_cb,         \* category_cb.currentText()
  setup_in_progress,   \* MainWindow._setup_in_progress
  setup_worker,        \* the OllamaSetupWorker: none, running, finished_ok/_error, handled
  workers,             \* the Worker threads started and not yet handled by on_done
  now,                 \* the wall clock, in seconds
  question_box,        \* the QMessageBox.question of delete_current_chat is open
  \* ---- one call of a pure function: its arguments and what it gave ----
  call,
  ret

ui_vars == <<cfg, sessions, messages, seq_sessions, seq_messages, current_session_id,
             send_enabled, input_enabled, category_cb, setup_in_progress,
             setup_worker, workers, now, question_box>>
fn_vars == <<call, ret>>
vars == <<cfg, sessions, messages, seq_sessions, seq_messages, current_session_id,
          send_enabled, input_enabled, category_cb, setup_in_progress,
          setup_worker, workers, now, question_box, call, ret>>

--------------------------------------------------------------------------
(* Python built-ins on integers and sequences *)

Max(a, b) == IF a >= b THEN a ELSE b
Min(a, b) == IF a <= b THEN a ELSE b

\* `sub in text` on str
IsSubstring(sub, text) ==
  \E i \in 0..(Len(text) - Len(sub)) : SubSeq(text, i + 1, i + Len(sub)) = sub

\* text.startswith(prefix)
StartsWith(text, prefix) ==
  Len(prefix) <= Len(text) /\ SubSeq(text, 1, Len(prefix)) = prefix

\* sep.join(parts)
RECURSIVE Join(_, _)
Join(sep, parts) ==
  IF parts = <<>> THEN <<>>
  ELSE IF Len(parts) = 1 THEN parts[1]
  ELSE parts[1] \o sep \o Join(sep, Tail(parts))

\* str.isspace() of one character, which is also what \s matches and strip() removes
IsSpace(c) == c \in (9..13) \cup (28..32) \cup {133, 160}

\* \d and \w of module re on str patterns
IsDigit(c) == c \in 48..57
IsWordChar(c) ==
  c \in (48..57) \cup (65..90) \cup {95} \cup (97..122) \cup {170, 178, 179, 181, 185, 186}
        \cup (188..190) \cup (192..214) \cup (216..246) \cup (248..382)

\* str.lower() of one character: the characters it becomes
LowerChar(c) ==
  IF c \in (65..90) \cup (192..214) \cup (216..222) THEN <<c + 32>>
  ELSE IF c = 304 THEN <<105, 775>>
  ELSE IF c = 376 THEN <<255>>
  ELSE IF c \in (256..311) /\ c % 2 = 0 THEN <<c + 1>>
  ELSE IF c \in (313..328) /\ c % 2 = 1 THEN <<c + 1>>
  ELSE IF c \in (330..375) /\ c % 2 = 0 THEN <<c + 1>>
  ELSE IF c \in (377..382) /\ c % 2 = 1 THEN <<c + 1>>
  ELSE <<c>>

\* str.lower()
RECURSIVE Lower(_)
Lower(text) == IF text = <<>> THEN <<>> ELSE LowerChar(Head(text)) \o Lower(Tail(text))

\* str.strip()
RECURSIVE LStrip(_)
LStrip(text) ==
  IF text # <<>> /\ IsSpace(Head(text)) THEN LStrip(Tail(text)) ELSE text
RECURSIVE RStrip(_)
RStrip(text) ==
  IF text # <<>> /\ IsSpace(text[Len(text)]) THEN RStrip(SubSeq(text, 1, Len(text) - 1))
  ELSE text
Strip(text) == RStrip(LStrip(text))

\* re.sub(r"\s+", " ", text): every maximal run of whitespace becomes one space
RECURSIVE CollapseSpace(_, _)
CollapseSpace(text, in_run) ==
  IF text = <<>> THEN <<>>
  ELSE IF IsSpace(Head(text))
       THEN (IF in_run THEN <<>> ELSE <<32>>) \o CollapseSpace(Tail(text), TRUE)
       ELSE <<Head(text)>> \o CollapseSpace(Tail(text), FALSE)

--------------------------------------------------------------------------
(* lawmate_app/utils.py *)

\* utils.py lines 100-105: red_terms, each term as its sequence of code points
\* (policie, trestni oznameni, obvinen, obzaloba, vypoved, zadrzeni, soud, exekuce, predvolani, insolvence, spravni rizeni, vyhrozuje, nasili, napadeni, ublizeni, zabil, vrazda, usmrceni, kradez, podvod, dluh, zaloba, vyzva k uhrade; diacritics dropped in this comment only).
red_terms ==
  <<
    <<112, 111, 108, 105, 99, 105, 101>>,
    <<116, 114, 101, 115, 116, 110, 237, 32, 111, 122, 110, 225, 109, 101, 110, 237>>,
    <<111, 98, 118, 105, 110, 283, 110>>,
    <<111, 98, 382, 97, 108, 111, 98, 97>>,
    <<118, 253, 112, 111, 118, 283, 271>>,
    <<122, 97, 100, 114, 382, 101, 110, 237>>,
    <<115, 111, 117, 100>>,
    <<101, 120, 101, 107, 117, 99, 101>>,
    <<112, 345, 101, 100, 118, 111, 108, 225, 110, 237>>,
    <<105, 110, 115, 111, 108, 118, 101, 110, 99, 101>>,
    <<115, 112, 114, 225, 118, 110, 237, 32, 345, 237, 122, 101, 110, 237>>,
    <<118, 121, 104, 114, 111, 382, 117, 106, 101>>,
    <<110, 225, 115, 105, 108, 237>>,
    <<110, 97, 112, 97, 100, 101, 110, 237>>,
    <<117, 98, 108, 237, 382, 101, 110, 237>>,
    <<122, 97, 98, 105, 108>>,
    <<118, 114, 97, 382, 100, 97>>,
    <<117, 115, 109, 114, 99, 101, 110, 237>>,
    <<107, 114, 225, 100, 101, 382>>,
    <<112, 111, 100, 118, 111, 100>>,
    <<100, 108, 117, 104>>,
    <<382, 97, 108, 111, 98, 97>>,
    <<118, 253, 122, 118, 97, 32, 107, 32, 250, 104, 114, 97, 100, 283>>
  >>

\* utils.py lines 106-110: yellow_terms, each term as its sequence of code points
\* (smlouva, vypoved, reklamace, vraceni, pokuta, nahrada skody, pronajem, najem, rozvod, dedictvi, dohoda, zamestnavatel, odstoupeni, pujcka; diacritics dropped in this comment only).
yellow_terms ==
  <<
    <<115, 109, 108, 111, 117, 118, 97>>,
    <<118, 253, 112, 111, 118, 283, 271>>,
    <<114, 101, 107, 108, 97, 109, 97, 99, 101>>,
    <<118, 114, 225, 99, 101, 110, 237>>,
    <<112, 111, 107, 117, 116, 97>>,
    <<110, 225, 104, 114, 97, 100, 97, 32, 353, 107, 111, 100, 121>>,
    <<112, 114, 111, 110, 225, 106, 101, 109>>,
    <<110, 225, 106, 101, 109>>,
    <<114, 111, 122, 118, 111, 100>>,
    <<100, 283, 100, 105, 99, 116, 118, 237>>,
    <<100, 111, 104, 111, 100, 97>>,
    <<122, 97, 109, 283, 115, 116, 110, 97, 118, 97, 116, 101, 108>>,
    <<111, 100, 115, 116, 111, 117, 112, 101, 110, 237>>,
    <<112, 367, 106, 269, 107, 97>>
  >>

\* utils.py lines 55-61: trest_terms, each term as its sequence of code points
\* (policie, trestni, trestny, trestni oznameni, obvinen, obzaloba, vypoved, zadrzeni, predvolani, soud, statni zastupce, kriminalka, napadeni, ublizeni, nasili, vyhrozuje, vydirani, kradez, loupez, podvod, drogy, alkohol, rizeni pod vlivem, vrazda, zavrazdil, zabil, smrt, usmrceni; diacritics dropped in this comment only).
trest_terms ==
  <<
    <<112, 111, 108, 105, 99, 105, 101>>,
    <<116, 114, 101, 115, 116, 110, 237>>,
    <<116, 114, 101, 115, 116, 110, 253>>,
    <<116, 114, 101, 115, 116, 110, 237, 32, 111, 122, 110, 225, 109, 101, 110, 237>>,
    <<111, 98, 118, 105, 110, 283, 110>>,
    <<111, 98, 382, 97, 108, 111, 98, 97>>,
    <<118, 253, 112, 111, 118, 283, 271>>,
    <<122, 97, 100, 114, 382, 101, 110, 237>>,
    <<112, 345, 101, 100, 118, 111, 108, 225, 110, 237>>,
    <<115, 111, 117, 100>>,
    <<115, 116, 225, 116, 110, 237, 32, 122, 225, 115, 116, 117, 112, 99, 101>>,
    <<107, 114, 105, 109, 105, 110, 225, 108, 107, 97>>,
    <<110, 97, 112, 97, 100, 101, 110, 237>>,
    <<117, 98, 108, 237, 382, 101, 110, 237>>,
    <<110, 225, 115, 105, 108, 237>>,
    <<118, 121, 104, 114, 111, 382, 117, 106, 101>>,
    <<118, 121, 100, 237, 114, 225, 110, 237>>,
    <<107, 114, 225, 100, 101, 382>>,
    <<108, 111, 117, 112, 101, 382>>,
    <<112, 111, 100, 118, 111, 100>>,
    <<100, 114, 111, 103, 121>>,
    <<97, 108, 107, 111, 104, 111, 108>>,
    <<345, 237, 122, 101, 110, 237, 32, 112, 111, 100, 32, 118, 108, 105, 118, 101, 109>>,
    <<118, 114, 97, 382, 100, 97>>,
    <<122, 97, 118, 114, 97, 382, 100, 105, 108>>,
    <<122, 97, 98, 105, 108>>,
    <<115, 109, 114, 116>>,
    <<117, 115, 109, 114, 99, 101, 110, 237>>
  >>

\* utils.py lines 62-69: obc_terms, each term as its sequence of code points
\* (smlouva, faktura, nezaplatil, neplati, dluh, pujcka, penize, zaloba, vyzva k uhrade, nahrada skody, skoda, reklamace, vraceni, zaruka, spotrebitel, pronajem, najem, kauce, soused, plot, hluk, rozvod, dedictvi, opatrovnictvi, pece o dite, zamestnavatel, vypoved z prace, pracovni smlouva; diacritics dropped in this comment only).
obc_terms ==
  <<
    <<115, 109, 108, 111, 117, 118, 97>>,
    <<102, 97, 107, 116, 117, 114, 97>>,
    <<110, 101, 122, 97, 112, 108, 97, 116, 105, 108>>,
    <<110, 101, 112, 108, 97, 116, 237>>,
    <<100, 108, 117, 104>>,
    <<112, 367, 106, 269, 107, 97>>,
    <<112, 101, 110, 237, 122, 101>>,
    <<382, 97, 108, 111, 98, 97>>,
    <<118, 253, 122, 118, 97, 32, 107, 32, 250, 104, 114, 97, 100, 283>>,
    <<110, 225, 104, 114, 97, 100, 97, 32, 353, 107, 111, 100, 121>>,
    <<353, 107, 111, 100, 97>>,
    <<114, 101, 107, 108, 97, 109, 97, 99, 101>>,
    <<118, 114, 225, 99, 101, 110, 237>>,
    <<122, 225, 114, 117, 107, 97>>,
    <<115, 112, 111, 116, 345, 101, 98, 105, 116, 101, 108>>,
    <<112, 114, 111, 110, 225, 106, 101, 109>>,
    <<110, 225, 106, 101, 109>>,
    <<107, 97, 117, 99, 101>>,
    <<115, 111, 117, 115, 101, 100>>,
    <<112, 108, 111, 116>>,
    <<104, 108, 117, 107>>,
    <<114, 111, 122, 118, 111, 100>>,
    <<100, 283, 100, 105, 99, 116, 118, 237>>,
    <<111, 112, 97, 116, 114, 111, 118, 110, 105, 99, 116, 118, 237>>,
    <<112, 233, 269, 101, 32, 111, 32, 100, 237, 116, 283>>,
    <<122, 97, 109, 283, 115, 116, 110, 97, 118, 97, 116, 101, 108>>,
    <<118, 253, 112, 111, 118, 283, 271, 32, 122, 32, 112, 114, 225, 99, 101>>,
    <<112, 114, 97, 99, 111, 118, 110, 237, 32, 115, 109, 108, 111, 117, 118, 97>>
  >>

\* utils.py lines 70-74: legal_terms, each term as its sequence of code points
\* (jaky je zakon, jaky zakon plati, paragraf, sbirka, ustav, jak to rika zakon, co rika zakon, pravni predpis, vyhlaska, judikatura, nejvyssi soud, nss, ustavni soud; diacritics dropped in this comment only).
legal_terms ==
  <<
    <<106, 97, 107, 253, 32, 106, 101, 32, 122, 225, 107, 111, 110>>,
    <<106, 97, 107, 253, 32, 122, 225, 107, 111, 110, 32, 112, 108, 97, 116, 237>>,
    <<112, 97, 114, 97, 103, 114, 97, 102>>,
    <<115, 98, 237, 114, 107, 97>>,
    <<250, 115, 116, 97, 118>>,
    <<106, 97, 107, 32, 116, 111, 32, 345, 237, 107, 225, 32, 122, 225, 107, 111, 110>>,
    <<99, 111, 32, 345, 237, 107, 225, 32, 122, 225, 107, 111, 110>>,
    <<112, 114, 225, 118, 110, 237, 32, 112, 345, 101, 100, 112, 105, 115>>,
    <<118, 121, 104, 108, 225, 353, 107, 97>>,
    <<106, 117, 100, 105, 107, 97, 116, 117, 114, 97>>,
    <<110, 101, 106, 118, 121, 353, 353, 237, 32, 115, 111, 117, 100>>,
    <<110, 115, 115>>,
    <<250, 115, 116, 97, 118, 110, 237, 32, 115, 111, 117, 100>>
  >>

\* utils.py lines 6-17: _CZ_STOPWORDS, the set of stop words as code-point sequences
\* (a k o s u v z at az be by co do je ke ku na ni od po se si ta to tu uz ve vy za ze ze aby ale ani ano bez byl bys jen kde kdo nad nez nic pak pod pro sve tak tam ten vam vas vas bude bych byla byli jeho jeji jsem jsme jsou jste kdyz komu nebo svym svuj tady taky tuto vase budou byste jeste kolem kolik ktera ktere ktery kvuli okolo podle proti spolu sveho svemi tento bychom jestli stejne protoze).
CZ_STOPWORDS ==
  {
    <<97>>, <<107>>, <<111>>, <<115>>, <<117>>, <<118>>, <<122>>, <<97, 357>>, <<97, 382>>,
    <<98, 101>>, <<98, 121>>, <<99, 111>>, <<100, 111>>, <<106, 101>>, <<107, 101>>,
    <<107, 117>>, <<110, 97>>, <<110, 105>>, <<111, 100>>, <<112, 111>>, <<115, 101>>,
    <<115, 105>>, <<116, 97>>, <<116, 111>>, <<116, 117>>, <<117, 382>>, <<118, 101>>,
    <<118, 121>>, <<122, 97>>, <<122, 101>>, <<382, 101>>, <<97, 98, 121>>, <<97, 108, 101>>,
    <<97, 110, 105>>, <<97, 110, 111>>, <<98, 101, 122>>, <<98, 121, 108>>, <<98, 121, 115>>,
    <<106, 101, 110>>, <<107, 100, 101>>, <<107, 100, 111>>, <<110, 97, 100>>,
    <<110, 101, 382>>, <<110, 105, 99>>, <<112, 97, 107>>, <<112, 111, 100>>,
    <<112, 114, 111>>, <<115, 118, 233>>, <<116, 97, 107>>, <<116, 97, 109>>,
    <<116, 101, 110>>, <<118, 225, 109>>, <<118, 225, 115>>, <<118, 225, 353>>,
    <<98, 117, 100, 101>>, <<98, 121, 99, 104>>, <<98, 121, 108, 97>>, <<98, 121, 108, 105>>,
    <<106, 101, 104, 111>>, <<106, 101, 106, 237>>, <<106, 115, 101, 109>>,
    <<106, 115, 109, 101>>, <<106, 115, 111, 117>>, <<106, 115, 116, 101>>,
    <<107, 100, 121, 382>>, <<107, 111, 109, 117>>, <<110, 101, 98, 111>>,
    <<115, 118, 253, 109>>, <<115, 118, 367, 106>>, <<116, 97, 100, 121>>,
    <<116, 97, 107, 121>>, <<116, 117, 116, 111>>, <<118, 97, 353, 101>>,
    <<98, 117, 100, 111, 117>>, <<98, 121, 115, 116, 101>>, <<106, 101, 353, 116, 283>>,
    <<107, 111, 108, 101, 109>>, <<107, 111, 108, 105, 107>>, <<107, 116, 101, 114, 225>>,
    <<107, 116, 101, 114, 233>>, <<107, 116, 101, 114, 253>>, <<107, 118, 367, 108, 105>>,
    <<111, 107, 111, 108, 111>>, <<112, 111, 100, 108, 101>>, <<112, 114, 111, 116, 105>>,
    <<115, 112, 111, 108, 117>>, <<115, 118, 233, 104, 111>>, <<115, 118, 233, 109, 105>>,
    <<116, 101, 110, 116, 111>>, <<98, 121, 99, 104, 111, 109>>,
    <<106, 101, 115, 116, 108, 105>>, <<115, 116, 101, 106, 110, 283>>,
    <<112, 114, 111, 116, 111, 382, 101>>
  }

\* utils.py line 22: the default of max_keywords
DEFAULT_MAX_KEYWORDS == 12

\* the whitespace runs collapsed, the ends of the text left as they are
normalize_text_unstripped(text) == CollapseSpace(text, FALSE)

\* utils.py lines 19-20
normalize_text(text) == CollapseSpace(Strip(text), FALSE)

\* utils.py line 24: the class [a-z\u00e1-\u017e0-9] under re.IGNORECASE
KeywordChar(c) ==
  c \in (48..57) \cup (65..90) \cup (97..122) \cup (193..214) \cup (216..222) \cup (225..382)

\* utils.py line 24: re.findall(r"[a-z\u00e1-\u017e0-9]{3,}", text): the maximal runs of
\* class characters that are at least 3 long, left to right (run is the run being read)
RECURSIVE FindWords(_, _)
FindWords(text, run) ==
  IF text = <<>> THEN (IF Len(run) >= 3 THEN <<run>> ELSE <<>>)
  ELSE IF KeywordChar(Head(text))
       THEN FindWords(Tail(text), Append(run, Head(text)))
       ELSE (IF Len(run) >= 3 THEN <<run>> ELSE <<>>) \o FindWords(Tail(text), <<>>)

\* utils.py lines 26-35: the loop over words; seen is the set of the elements of out
RECURSIVE KeepKeywords(_, _, _)
KeepKeywords(words, out, max_keywords) ==
  IF words = <<>> THEN out
  ELSE IF \E k \in 1..Len(out) : out[k] = Head(words)
       THEN KeepKeywords(Tail(words), out, max_keywords)
       ELSE LET out2 == Append(out, Head(words))
            IN  IF Len(out2) >= max_keywords THEN out2
                ELSE KeepKeywords(Tail(words), out2, max_keywords)

\* utils.py lines 22-35
extract_keywords(text, max_keywords) ==
  LET lowered == Lower(normalize_text(text))
      words   == SelectSeq(FindWords(lowered, <<>>), LAMBDA w : w \notin CZ_STOPWORDS)
  IN  KeepKeywords(words, <<>>, max_keywords)

\* a variant of traffic_light_from_score whose red band starts above 70
traffic_light_red_above_70(score) ==
  IF score > 70 THEN "red"
  ELSE IF score >= 35 THEN "yellow"
  ELSE "green"

\* utils.py lines 37-42
traffic_light_from_score(score) ==
  IF score >= 70 THEN "red"
  ELSE IF score >= 35 THEN "yellow"
  ELSE "green"

\* main_window.py lines 30-31: "Auto (rozpoznat oblast)" and the three legal domains
\* ("Trestni pravo", "Obcanske pravo", "Pravni rad CR (obecne)"), as code points
AUTO_CATEGORY ==
  <<65, 117, 116, 111, 32, 40, 114, 111, 122, 112, 111, 122, 110, 97, 116, 32,
    111, 98, 108, 97, 115, 116, 41>>
TrestniPravo == <<84, 114, 101, 115, 116, 110, 237, 32, 112, 114, 225, 118, 111>>
ObcanskePravo == <<79, 98, 269, 97, 110, 115, 107, 233, 32, 112, 114, 225, 118, 111>>
PravniRad ==
  <<80, 114, 225, 118, 110, 237, 32, 345, 225, 100, 32, 268, 82, 32,
    40, 111, 98, 101, 99, 110, 283, 41>>
CATEGORIES == <<AUTO_CATEGORY, TrestniPravo, ObcanskePravo, PravniRad>>

\* utils.py lines 76-81: score_for, with t the lowered text of the enclosing call
RECURSIVE score_for(_, _)
score_for(terms, t) ==
  IF terms = <<>> THEN 0
  ELSE (IF IsSubstring(Head(terms), t) THEN 2 ELSE 0) + score_for(Tail(terms), t)

\* a variant of infer_category in which the later domain wins a tie
infer_category_last_wins(user_text) ==
  LET t  == Lower(normalize_text(user_text))
      s1 == score_for(trest_terms, t)
      s2 == score_for(obc_terms, t)
      s3 == score_for(legal_terms, t)
      best == IF s3 >= s2 /\ s3 >= s1 THEN <<PravniRad, s3>>
              ELSE IF s2 >= s1 THEN <<ObcanskePravo, s2>>
              ELSE <<TrestniPravo, s1>>
  IN  IF best[2] = 0 THEN PravniRad ELSE best[1]

\* utils.py lines 45-93: max() over the dict gives the first key, in insertion order,
\* whose score is the largest
infer_category(user_text) ==
  LET t  == Lower(normalize_text(user_text))
      s1 == score_for(trest_terms, t)
      s2 == score_for(obc_terms, t)
      s3 == score_for(legal_terms, t)
      best == IF s1 >= s2 /\ s1 >= s3 THEN <<TrestniPravo, s1>>
              ELSE IF s2 >= s3 THEN <<ObcanskePravo, s2>>
              ELSE <<PravniRad, s3>>
  IN  IF best[2] = 0 THEN PravniRad ELSE best[1]

\* a variant of AddForTerms that adds the points once for every occurrence of a term
RECURSIVE AddForOccurrences(_, _, _)
AddForOccurrences(terms, t, points) ==
  IF terms = <<>> THEN 0
  ELSE LET term == Head(terms)
           hits == {p \in 1..Len(t) :
                      /\ p + Len(term) - 1 <= Len(t)
                      /\ SubSeq(t, p, p + Len(term) - 1) = term}
       IN  points * Cardinality(hits) + AddForOccurrences(Tail(terms), t, points)

\* utils.py lines 112-118: one loop over a term list, points for every term found in t
RECURSIVE AddForTerms(_, _, _)
AddForTerms(terms, t, points) ==
  IF terms = <<>> THEN 0
  ELSE (IF IsSubstring(Head(terms), t) THEN points ELSE 0)
       + AddForTerms(Tail(terms), t, points)

\* \b of module re between t[p] and t[p+1] (p = 0 and p = Len(t) are the two ends)
IsWordAt(t, p) == p \in 1..Len(t) /\ IsWordChar(t[p])
WordBoundary(t, p) == IsWordAt(t, p) # IsWordAt(t, p + 1)
AllDigits(t, i, j) == j <= Len(t) /\ \A k \in i..j : IsDigit(t[k])

\* utils.py line 120: re.findall(r"\b(\d{1,3}(?:[ .]\d{3})+|\d{4,})\b", t) finds something
HasMoney(t) ==
  \E i \in 1..Len(t) :
    /\ WordBoundary(t, i - 1)
    /\ \/ \E k \in 1..3 : \E g \in 1..Len(t) :
            /\ i + k - 1 + 4 * g <= Len(t)
            /\ AllDigits(t, i, i + k - 1)
            /\ \A q \in 0..(g - 1) :
                 /\ t[i + k + 4 * q] \in {32, 46}
                 /\ AllDigits(t, i + k + 4 * q + 1, i + k + 4 * q + 3)
            /\ WordBoundary(t, i + k - 1 + 4 * g)
       \/ \E j \in (i + 3)..Len(t) : AllDigits(t, i, j) /\ WordBoundary(t, j)

\* utils.py line 124: "do zitra" in t or "dnes" in t or "lhut" in t (with diacritics)
HasUrgency(t) ==
  \/ IsSubstring(<<100, 111, 32, 122, 237, 116, 114, 97>>, t)
  \/ IsSubstring(<<100, 110, 101, 115>>, t)
  \/ IsSubstring(<<108, 104, 367, 116>>, t)

\* utils.py lines 96-130
heuristic_risk_score(user_text, category) ==
  LET t  == Lower(user_text)
      s0 == 10
      s1 == s0 + AddForTerms(red_terms, t, 30)
      s2 == s1 + AddForTerms(yellow_terms, t, 15)
      s3 == s2 + (IF HasMoney(t) THEN 15 ELSE 0)
      s4 == s3 + (IF HasUrgency(t) THEN 15 ELSE 0)
      s5 == s4 + (IF StartsWith(Lower(category), <<116, 114, 101, 115, 116>>) THEN 10 ELSE 0)
  IN  Min(s5, 100)

--------------------------------------------------------------------------
(* Worker.run's merge of the model's assessment with the heuristic *)

\* main_window.py line 81
order == [l \in {"green", "yellow", "red"} |->
            IF l = "green" THEN 0 ELSE IF l = "yellow" THEN 1 ELSE 2]

\* a variant of merge in which the heuristic also overrides a model light of its own
\* severity
merge_on_equal_severity(ans, heur) ==
  LET heur_light == traffic_light_from_score(heur)
  IN  IF order[heur_light] >= order[ans.traffic_light]
      THEN [ans EXCEPT !.traffic_light = heur_light,
                       !.risk_score = Max(ans.risk_score, heur)]
      ELSE ans

\* main_window.py lines 79-84: ans is the provider's answer (a LawmateAnswer), heur the
\* heuristic's score; the result is ans after the two assignments
merge(ans, heur) ==
  LET heur_light == traffic_light_from_score(heur)
  IN  IF order[heur_light] > order[ans.traffic_light]
      THEN [ans EXCEPT !.traffic_light = heur_light,
                       !.risk_score = Max(ans.risk_score, heur)]
      ELSE ans

--------------------------------------------------------------------------
(* lawmate_app/rag/justice_api.py                                          *)
(*                                                                         *)
(* What fetch_day gives for one day is either [kind |-> "raise"] (requests *)
(* raised: no connection, an HTTP error status, a body that is not JSON)   *)
(* or [kind |-> "json", payload |-> v], v the decoded JSON value:          *)
(*   [type |-> "array"]                        any value that is no object *)
(*   [type |-> "object", has_items |-> FALSE]  an object without "items"   *)
(*   [type |-> "object", has_items |-> TRUE, items |-> w]                  *)
(* with w either [type |-> "null"] (any value that is no list) or          *)
(* [type |-> "list", elems |-> <<item, ...>>]; an item is                  *)
(* [type |-> "string"] (no object) or [type |-> "object", ...] with the    *)
(* keys of the open-data API.                                              *)
(***************************************************************************)

\* s[:n], also for negative n
PySlice(s, n) == SubSeq(s, 1, IF n >= 0 THEN Min(n, Len(s)) ELSE Max(Len(s) + n, 0))

\* justice_api.py lines 54-57: the lower-cased text an item is matched against
ItemBlob(it) ==
  LET predmet == normalize_text(it.predmetRizeni)
  IN  Lower(Join(<<32>>, <<predmet>> \o it.klicovaSlova \o it.zminenaUstanoveni))

\* justice_api.py line 59: sum(1 for kw in keywords if kw in blob)
Overlap(keywords, blob) ==
  Cardinality({k \in 1..Len(keywords) : IsSubstring(keywords[k], blob)})

\* justice_api.py lines 65-77: the JusticeDecision built from an item; score is the
\* quotient overlap / max(len(keywords), 1), kept as <<numerator, denominator>>
MakeDecision(it, keywords) ==
  [jednaci_cislo      |-> it.jednaciCislo,
   soud               |-> it.soud,
   predmet_rizeni     |-> normalize_text(it.predmetRizeni),
   datum_vydani       |-> it.datumVydani,
   datum_zverejneni   |-> it.datumZverejneni,
   klicova_slova      |-> PySlice(it.klicovaSlova, 10),
   zminena_ustanoveni |-> PySlice(it.zminenaUstanoveni, 10),
   odkaz              |-> it.odkaz,
   score              |-> <<Overlap(keywords, ItemBlob(it)), Max(Len(keywords), 1)>>]

\* x.score > y.score on the quotients
ScoreGreater(x, y) == x.score[1] * y.score[2] > y.score[1] * x.score[2]

\* justice_api.py lines 53-77: the loop over one day's items; it.get on an item that
\* is no object raises AttributeError, which nothing in the function catches
RECURSIVE ScoreItems(_, _, _)
ScoreItems(items, keywords, candidates) ==
  IF items = <<>> THEN [raised |-> FALSE, candidates |-> candidates]
  ELSE LET it == Head(items)
       IN  IF it.type # "object" THEN [raised |-> TRUE, candidates |-> candidates]
           ELSE IF Overlap(keywords, ItemBlob(it)) = 0
                THEN ScoreItems(Tail(items), keywords, candidates)
                ELSE ScoreItems(Tail(items), keywords,
                                Append(candidates, MakeDecision(it, keywords)))

\* justice_api.py lines 40-77: the loop over the days i = from..lookback_days-1;
\* fetch[i + 1] is what fetch_day gives for today - i, calls the day offsets asked for
RECURSIVE ScanDays(_, _, _, _, _, _, _)
ScanDays(i, lookback_days, max_items_per_day, keywords, fetch, candidates, calls) ==
  IF i >= lookback_days
  THEN [raised |-> FALSE, candidates |-> candidates, calls |-> calls]
  ELSE
    LET data   == fetch[i + 1]
        calls2 == Append(calls, i)
    IN  IF data.kind = "raise"
        THEN ScanDays(i + 1, lookback_days, max_items_per_day, keywords, fetch,
                      candidates, calls2)
        ELSE IF data.payload.type # "object"
        THEN [raised |-> TRUE, candidates |-> candidates, calls |-> calls2]
        ELSE
          LET items == IF data.payload.has_items THEN data.payload.items
                       ELSE [type |-> "list", elems |-> <<>>]
          IN  IF items.type # "list"
              THEN ScanDays(i + 1, lookback_days, max_items_per_day, keywords, fetch,
                            candidates, calls2)
              ELSE
                LET r == ScoreItems(PySlice(items.elems, max_items_per_day),
                                    keywords, candidates)
                IN  IF r.raised
                    THEN [raised |-> TRUE, candidates |-> r.candidates, calls |-> calls2]
                    ELSE ScanDays(i + 1, lookback_days, max_items_per_day, keywords,
                                  fetch, r.candidates, calls2)

\* a variant of InsertByScore that puts an element before those of its own score
InsertBeforeTies(sorted, c) ==
  LET ahead == Cardinality({k \in 1..Len(sorted) : ScoreGreater(sorted[k], c)})
  IN  SubSeq(sorted, 1, ahead) \o <<c>> \o SubSeq(sorted, ahead + 1, Len(sorted))

\* justice_api.py line 79: list.sort(key=score, reverse=True) is stable: one element
\* goes behind every element whose score is not smaller
InsertByScore(sorted, c) ==
  LET ahead == Cardinality({k \in 1..Len(sorted) : ~ScoreGreater(c, sorted[k])})
  IN  SubSeq(sorted, 1, ahead) \o <<c>> \o SubSeq(sorted, ahead + 1, Len(sorted))
RECURSIVE SortByScoreDesc(_, _)
SortByScoreDesc(candidates, sorted) ==
  IF candidates = <<>> THEN sorted
  ELSE SortByScoreDesc(Tail(candidates), InsertByScore(sorted, Head(candidates)))

\* a variant of search_recent_decisions without the early return of lines 34-35
search_without_early_return(question, lookback_days, max_items_per_day, fetch) ==
  LET keywords == extract_keywords(question, DEFAULT_MAX_KEYWORDS)
      r == ScanDays(0, lookback_days, max_items_per_day, keywords, fetch, <<>>, <<>>)
  IN  IF r.raised
      THEN [raised |-> TRUE, value |-> <<>>, calls |-> r.calls]
      ELSE [raised |-> FALSE,
            value  |-> PySlice(SortByScoreDesc(r.candidates, <<>>), 5),
            calls  |-> r.calls]

\* justice_api.py lines 32-80: what the call gives (raised, or the list in value) and
\* the day offsets it asked fetch_day for
search_recent_decisions(question, lookback_days, max_items_per_day, fetch) ==
  LET keywords == extract_keywords(question, DEFAULT_MAX_KEYWORDS)
  IN  IF keywords = <<>> \/ lookback_days <= 0
      THEN [raised |-> FALSE, value |-> <<>>, calls |-> <<>>]
      ELSE
        LET r == ScanDays(0, lookback_days, max_items_per_day, keywords, fetch,
                          <<>>, <<>>)
        IN  IF r.raised
            THEN [raised |-> TRUE, value |-> <<>>, calls |-> r.calls]
            ELSE [raised |-> FALSE,
                  value  |-> PySlice(SortByScoreDesc(r.candidates, <<>>), 5),
                  calls  |-> r.calls]

--------------------------------------------------------------------------
(* What the open-data API answers, for the model's runs of the retrieval.  *)

\* justice_api.py lines 54-74: one item of a day's "items", an object with the
\* API's keys; the item published on day offset d carries d in datumZverejneni
Item(cislo, predmet, klic, ust, d) ==
  [type |-> "object", jednaciCislo |-> cislo, soud |-> <<79, 83>>,
   predmetRizeni |-> predmet, klicovaSlova |-> klic, zminenaUstanoveni |-> ust,
   datumVydani |-> <<50, 48, 50, 52>>, datumZverejneni |-> <<48 + d>>,
   odkaz |-> <<104, 116, 116, 112, 115, 58, 47, 47, 120, 47>> \o cislo]

\* "A": predmetRizeni "dluh"
ItemA(d) == Item(<<65>>, <<100, 108, 117, 104>>, <<>>, <<>>, d)
\* "B": predmetRizeni "Dluh \t sousedy", klicovaSlova ["najem"]
ItemB(d) == Item(<<66>>, <<68, 108, 117, 104, 32, 9, 32, 115, 111, 117, 115, 101, 100, 121>>,
                 << <<110, 225, 106, 101, 109>> >>, <<>>, d)
\* "C": predmetRizeni "rozvod", klicovaSlova ["MAM", "dluh"], zminenaUstanoveni ["sousedy"]
ItemC(d) == Item(<<67>>, <<114, 111, 122, 118, 111, 100>>,
                 << <<77, 193, 77>>, <<100, 108, 117, 104>> >>,
                 << <<115, 111, 117, 115, 101, 100, 121>> >>, d)
\* "Z": predmetRizeni "rozvod"
ItemZ(d) == Item(<<90>>, <<114, 111, 122, 118, 111, 100>>, <<>>, <<>>, d)

\* justice_api.py lines 24-30: the answers of fetch_day the model draws from
FetchShapes ==
  {"raise", "array", "no items", "items null", "items A B Z", "items C A string",
   "items B A"}

\* justice_api.py lines 24-30: fetch_day for the day today - d, by shape
FetchOutcome(shape, d) ==
  LET Listed(elems) ==
        [kind |-> "json",
         payload |-> [type |-> "object", has_items |-> TRUE,
                      items |-> [type |-> "list", elems |-> elems]]]
  IN  CASE shape = "raise" -> [kind |-> "raise"]
        [] shape = "array" -> [kind |-> "json", payload |-> [type |-> "array"]]
        [] shape = "no items" ->
             [kind |-> "json", payload |-> [type |-> "object", has_items |-> FALSE]]
        [] shape = "items null" ->
             [kind |-> "json",
              payload |-> [type |-> "object", has_items |-> TRUE,
                           items |-> [type |-> "null"]]]
        [] shape = "items A B Z" -> Listed(<<ItemA(d), ItemB(d), ItemZ(d)>>)
        [] shape = "items C A string" ->
             Listed(<<ItemC(d), ItemA(d), [type |-> "string"]>>)
        [] shape = "items B A" -> Listed(<<ItemB(d), ItemA(d)>>)

\* the answers of fetch_day for the days today, today - 1, ..., one shape a day
Fetches(lookback_days) ==
  LET n == Max(lookback_days, 0)
  IN  {[i \in 1..n |-> FetchOutcome(shapes[i], i - 1)] : shapes \in [1..n -> FetchShapes]}

--------------------------------------------------------------------------
(* lawmate_app/db.py: the two tables, and sqlite_sequence for AUTOINCREMENT. *)
(* PRAGMA foreign_keys is never set, so SQLite does not enforce the          *)
(* FOREIGN KEY of messages; NOT NULL is enforced.  None is 0.                *)

\* Python's None in a column of type TEXT
None == "None"

\* db.py lines 8-9: utc_now_iso(), the clock to the second
utc_now_iso == now

\* db.py lines 46-54: the tables after create_session, and the id it returns
create_session(title, category) ==
  LET id == seq_sessions + 1
  IN  [id       |-> id,
       sessions |-> Append(sessions, [id |-> id, title |-> title, category |-> category,
                                      created_at |-> utc_now_iso,
                                      updated_at |-> utc_now_iso])]

\* db.py lines 56-61: ORDER BY updated_at DESC fixes no order among rows of equal
\* updated_at, so every such order is a possible result
list_rows(table) ==
  {rows \in [1..Len(table) -> {table[k] : k \in 1..Len(table)}] :
     /\ \A k \in 1..Len(table) : \E j \in 1..Len(rows) : rows[j] = table[k]
     /\ \A j \in 1..(Len(rows) - 1) : rows[j].updated_at >= rows[j + 1].updated_at}
list_sessions == list_rows(sessions)

\* the session row deleted, its messages kept
delete_session_keeping_messages(session_id) ==
  [sessions |-> SelectSeq(sessions, LAMBDA s : s.id # session_id),
   messages |-> messages]

\* db.py lines 63-67: the tables after delete_session
delete_session(session_id) ==
  [sessions |-> SelectSeq(sessions, LAMBDA s : s.id # session_id),
   messages |-> SelectSeq(messages, LAMBDA m : m.session_id # session_id)]

\* the message stored without its traffic_light
add_message_without_light(session_id, role, content, traffic_light, sources_json, later) ==
  LET id == seq_messages + 1
  IN  [raised   |-> FALSE,
       id       |-> id,
       messages |-> Append(messages,
                      [id |-> id, session_id |-> session_id, role |-> role,
                       content |-> content, traffic_light |-> None,
                       sources_json |-> sources_json, created_at |-> utc_now_iso]),
       sessions |-> [k \in 1..Len(sessions) |->
                       IF sessions[k].id = session_id
                       THEN [sessions[k] EXCEPT !.updated_at = later]
                       ELSE sessions[k]]]

\* the message stored, updated_at of its session left as it was
add_message_without_bump(session_id, role, content, traffic_light, sources_json, later) ==
  LET id == seq_messages + 1
  IN  [raised   |-> FALSE,
       id       |-> id,
       messages |-> Append(messages,
                      [id |-> id, session_id |-> session_id, role |-> role,
                       content |-> content, traffic_light |-> traffic_light,
                       sources_json |-> sources_json, created_at |-> utc_now_iso]),
       sessions |-> sessions]

\* db.py lines 69-87: the tables after add_message and the id it returns. The clock
\* is read twice: for created_at of the message (line 83), and for updated_at of the
\* session (line 85) after the INSERT has run, when it reads later. With session_id
\* None the INSERT violates NOT NULL and sqlite3.IntegrityError is raised before
\* anything is written
add_message(session_id, role, content, traffic_light, sources_json, later) ==
  IF session_id = 0
  THEN [raised |-> TRUE, id |-> 0, messages |-> messages, sessions |-> sessions]
  ELSE
    LET id == seq_messages + 1
    IN  [raised   |-> FALSE,
         id       |-> id,
         messages |-> Append(messages,
                        [id |-> id, session_id |-> session_id, role |-> role,
                         content |-> content, traffic_light |-> traffic_light,
                         sources_json |-> sources_json, created_at |-> utc_now_iso]),
         sessions |-> [k \in 1..Len(sessions) |->
                         IF sessions[k].id = session_id
                         THEN [sessions[k] EXCEPT !.updated_at = later]
                         ELSE sessions[k]]]

\* db.py lines 89-100: rows are kept in id order, so the selection is ORDER BY id ASC
get_messages(session_id) ==
  LET rows == SelectSeq(messages, LAMBDA m : m.session_id = session_id)
  IN  [k \in 1..Len(rows) |->
         [id |-> rows[k].id, role |-> rows[k].role, content |-> rows[k].content,
          traffic_light |-> rows[k].traffic_light,
          sources_json |-> rows[k].sources_json, created_at |-> rows[k].created_at]]

--------------------------------------------------------------------------
(* lawmate_app/llm/providers.py, as far as Worker.run sees it: what         *)
(* make_provider(cfg) followed by generate() gives.  A LawmateAnswer is kept *)
(* as its traffic_light, its risk_score and its sources; the other fields   *)
(* are free text that no code reads.                                        *)

TrafficLight == {"green", "yellow", "red"}

\* providers.py lines 27-57: the answer of MockProvider
MockAnswer == [traffic_light |-> "yellow", risk_score |-> 45, sources |-> <<>>]

\* models.py lines 13-22: answers that validate as LawmateAnswer, the ones a remote
\* model is given to return here
RemoteAnswers ==
  { [traffic_light |-> "green",  risk_score |-> 20, sources |-> <<>>],
    [traffic_light |-> "yellow", risk_score |-> 45, sources |-> <<>>],
    [traffic_light |-> "red",    risk_score |-> 90,
     sources |-> << [title |-> "NS 1/2024", url |-> "https://nsoud.cz/1",
                     why_relevant |-> "dluh"] >>] }

\* providers.py lines 66-87: the exceptions OpenAIProvider.generate lets out, by type
\* name: requests.post (line 81), the status other than 200 (lines 82-83), resp.json()
\* and json.loads (lines 84, 86), the subscripts of line 85, model_validate (line 87)
OpenAIRaises ==
  {"ConnectionError", "ReadTimeout", "LLMError", "JSONDecodeError", "KeyError",
   "IndexError", "TypeError", "ValidationError"}

\* providers.py lines 95-119: the exceptions OllamaProvider.generate lets out:
\* requests.post (line 108), the status other than 200 and the content without an
\* object (lines 109-110, 115-116), resp.json() and json.loads (lines 111, 117),
\* .get and .find on a value that has none (lines 112-114), model_validate (line 118)
OllamaRaises ==
  {"ConnectionError", "ReadTimeout", "LLMError", "JSONDecodeError", "AttributeError",
   "ValidationError"}

\* providers.py lines 59-126: make_provider(cfg).generate(...) either returns an
\* answer or raises; OpenAIProvider without a key raises LLMError when it is built
ProviderOutcomes(c) ==
  IF c.llm_provider = "openai" /\ c.openai_api_key = ""
  THEN {[raised |-> TRUE, type |-> "LLMError"]}
  ELSE IF c.llm_provider = "openai"
  THEN {[raised |-> TRUE, type |-> t] : t \in OpenAIRaises}
       \cup {[raised |-> FALSE, ans |-> a] : a \in RemoteAnswers}
  ELSE IF c.llm_provider = "ollama"
  THEN {[raised |-> TRUE, type |-> t] : t \in OllamaRaises}
       \cup {[raised |-> FALSE, ans |-> a] : a \in RemoteAnswers}
  ELSE {[raised |-> FALSE, ans |-> MockAnswer]}

\* main_window.py line 86: json.dumps([s.model_dump() for s in ans.sources],
\* ensure_ascii=False), for field values that need no escaping
RECURSIVE json_items(_)
json_items(sources) ==
  IF sources = <<>> THEN ""
  ELSE "{\"title\": \"" \o Head(sources).title \o "\", \"url\": \"" \o Head(sources).url
       \o "\", \"why_relevant\": \"" \o Head(sources).why_relevant \o "\"}"
       \o (IF Len(sources) > 1 THEN ", " ELSE "") \o json_items(Tail(sources))
json_dumps(sources) == "[" \o json_items(sources) \o "]"

--------------------------------------------------------------------------
(* lawmate_app/ui/main_window.py: Worker and MainWindow.                    *)
(*                                                                          *)
(* The view (the chat bubbles, the history list widget, the button's text)  *)
(* is left out: no handler reads it back, and the history list always holds *)
(* exactly the ids of table sessions, because refresh_sessions follows      *)
(* every create_session and delete_session.                                 *)

\* main_window.py lines 381, 396, 400-401: the text stored as a message's content, kept
\* as what it is built from: the question, the exception's type, or the answer's
\* sources (format_answer, lines 33-53, shows the sources and no score)
QuestionHtml(question) ==
  [kind |-> "question", text |-> question, type |-> "", sources |-> <<>>]
ErrorHtml(exc) ==
  [kind |-> "error", text |-> <<>>, type |-> exc.type, sources |-> <<>>]
format_answer(ans) ==
  [kind |-> "answer", text |-> <<>>, type |-> "", sources |-> ans.sources]

\* The model's bounds: ids given to sessions and to messages, Worker threads alive
\* at once, and the retrieval window of the configuration
MaxSessions == 2
MaxMessages == 4
MaxWorkers == 2
CfgLookbackDays == 1

\* config.py lines 39-49: the configurations the application is started with: the
\* mock provider, OpenAI with OPENAI_API_KEY missing, and Ollama
\* (JUSTICE_MAX_ITEMS_PER_DAY at its default)
Configs ==
  {[llm_provider |-> p, openai_api_key |-> "", justice_lookback_days |-> CfgLookbackDays,
    justice_max_items_per_day |-> 200] : p \in {"mock", "openai", "ollama"}}

\* main_window.py line 367: what the user has typed when send is clicked:
\* "   " and " Dluh  soud policie"
InputTexts ==
  { <<32, 32, 32>>,
    <<32, 68, 108, 117, 104, 32, 32, 115, 111, 117, 100, 32, 112, 111, 108, 105, 99,
      105, 101>> }

\* The text functions on the texts the model types in, each computed once:
\* normalize_text (main_window.py line 367), infer_category (line 375),
\* heuristic_risk_score (line 78), and everything search_recent_decisions (lines
\* 66-70) can give for a question, over the answers of fetch_day
Questions == {normalize_text(t) : t \in InputTexts}
normalized == [t \in InputTexts |-> normalize_text(t)]
inferred == [q \in Questions |-> infer_category(q)]
heuristic ==
  [q \in Questions, c \in {CATEGORIES[k] : k \in 1..Len(CATEGORIES)} |->
     heuristic_risk_score(q, c)]
retrieved ==
  [q \in Questions, c \in Configs |->
     {search_recent_decisions(q, c.justice_lookback_days, c.justice_max_items_per_day, f) :
        f \in Fetches(c.justice_lookback_days)}]

\* main_window.py lines 66-72: whether search_recent_decisions raised in Worker.run,
\* for every answer of the API; the decisions it returned go into the prompt only
retrieval_raised ==
  [q \in Questions, c \in Configs |-> {d.raised : d \in retrieved[q, c]}]

--------------------------------------------------------------------------
(* lawmate_app/llm/ollama_setup.py: ensure_ollama_ready and the thread      *)
(* that runs it.  The environment of a run is: whether OLLAMA_BASE_URL      *)
(* names ollama.com, whether OLLAMA_API_KEY is set, whether the ollama CLI  *)
(* is found, what the successive requests.get calls do, and whether         *)
(* `ollama pull` succeeds.  A result's message is kept as the line of the   *)
(* return statement that built it; the progress lines change nothing but    *)
(* the text of the button.                                                  *)

\* what one requests.get does: it raises, or it returns a status with a body that is
\* not JSON, or lists the configured model, or does not list it
GetOutcomes ==
  {[raises |-> TRUE, status_code |-> 0, body |-> "none"]}
    \cup {[raises |-> FALSE, status_code |-> s, body |-> b] :
            s \in {200, 500}, b \in {"not_json", "with_model", "without_model"}}

\* at most two requests are sent on any path
SetupEnvs ==
  {[is_cloud |-> c, api_key |-> k, cli |-> f, gets |-> <<g1, g2>>, pull |-> p] :
     c \in BOOLEAN, k \in BOOLEAN, f \in BOOLEAN, g1 \in GetOutcomes, g2 \in GetOutcomes,
     p \in BOOLEAN}

OllamaSetupResult(ok, line) == [raised |-> FALSE, ok |-> ok, message |-> line]

\* ollama_setup.py line 191: the name _start_ollama_server is not defined in the
\* module (line 86 defines _try_start_ollama_server, which nothing calls), so the
\* call raises NameError, inside the except block of lines 189-201
_start_ollama_server == [raised |-> TRUE, type |-> "NameError"]

\* ollama_setup.py lines 203-222: the model is looked up and pulled when missing
CheckModel(env, get) ==
  IF get.raises \/ get.body = "not_json" THEN OllamaSetupResult(FALSE, 214)
  ELSE IF get.body = "without_model" /\ ~env.pull THEN OllamaSetupResult(FALSE, 214)
  ELSE OllamaSetupResult(TRUE, 222)

\* ollama_setup.py lines 117-222
ensure_ollama_ready(env) ==
  IF env.is_cloud
  THEN IF ~env.api_key THEN OllamaSetupResult(FALSE, 142)
       ELSE IF env.gets[1].raises THEN OllamaSetupResult(FALSE, 165)
       ELSE IF env.gets[1].status_code # 200 THEN OllamaSetupResult(FALSE, 157)
       ELSE OllamaSetupResult(TRUE, 163)
  ELSE IF ~env.cli THEN OllamaSetupResult(FALSE, 173)
  ELSE IF env.gets[1].raises \/ env.gets[1].status_code # 200
  THEN _start_ollama_server
  ELSE CheckModel(env, env.gets[2])

\* ollama_setup.py lines 283-288: OllamaSetupWorker.run: the signal it emits, none
\* when ensure_ollama_ready raised
OllamaSetupWorker_run(env) ==
  LET res == ensure_ollama_ready(env)
  IN  IF res.raised THEN [raised |-> TRUE, type |-> res.type, emitted |-> "none"]
      ELSE [raised |-> FALSE, type |-> "",
            emitted |-> IF res.ok THEN "finished_ok" ELSE "finished_error"]

\* the ways a run of the setup thread can end
SetupOutcomes == {OllamaSetupWorker_run(env).emitted : env \in SetupEnvs}

\* main_window.py lines 55-62: a Worker that was started, before run() has finished
NewWorker(category, question) ==
  [category |-> category, question |-> question, status |-> "running",
   result |-> [kind |-> "none"], light |-> "", sources_json |-> ""]

\* main_window.py lines 64-89: what run() emits on done, given whether the retrieval
\* raised and what the provider does
WorkerEmits(w, raised, outcome) ==
  IF raised
  THEN [result |-> [kind |-> "exception", type |-> "AttributeError",
                    raised_in |-> "search_recent_decisions"],
        light |-> "red", sources_json |-> "[]"]
  ELSE IF outcome.raised
  THEN [result |-> [kind |-> "exception", type |-> outcome.type,
                    raised_in |-> "provider"],
        light |-> "red", sources_json |-> "[]"]
  ELSE
    LET ans == merge(outcome.ans, heuristic[w.question, w.category])
    IN  [result |-> [kind |-> "answer", ans |-> ans],
         light |-> ans.traffic_light, sources_json |-> json_dumps(ans.sources)]

\* main_window.py lines 64-89: Worker.run in its thread, up to done.emit
WorkerRun(k) ==
  /\ k \in 1..Len(workers)
  /\ workers[k].status = "running"
  /\ \E raised \in retrieval_raised[workers[k].question, cfg] :
       \E outcome \in ProviderOutcomes(cfg) :
         LET e == WorkerEmits(workers[k], raised, outcome)
         IN  workers' = [workers EXCEPT ![k] =
                           [@ EXCEPT !.status = "emitted", !.result = e.result,
                                     !.light = e.light, !.sources_json = e.sources_json]]
  /\ UNCHANGED <<cfg, sessions, messages, seq_sessions, seq_messages, current_session_id,
                 send_enabled, input_enabled, category_cb, setup_in_progress,
                 setup_worker, now, question_box, call, ret>>

\* main_window.py lines 301-312 (with load_session, lines 285-291)
new_chat ==
  /\ ~question_box
  /\ seq_sessions < MaxSessions
  /\ LET created == create_session(<<"Chat", now>>, category_cb)
     IN  /\ sessions' = created.sessions
         /\ seq_sessions' = created.id
         /\ current_session_id' = created.id
  /\ send_enabled' = TRUE
  /\ input_enabled' = TRUE
  /\ UNCHANGED <<cfg, messages, seq_messages, category_cb, setup_in_progress,
                 setup_worker, workers, now, question_box, call, ret>>

\* main_window.py lines 316-327: the handler up to QMessageBox.question, which opens
\* the modal box and runs an event loop until the user answers: the window takes no
\* input meanwhile, and the slots queued from the threads (on_done, _on_setup_ok,
\* _on_setup_error) run inside it
delete_current_chat ==
  /\ ~question_box
  /\ current_session_id # 0
  /\ question_box' = TRUE
  /\ UNCHANGED <<cfg, sessions, messages, seq_sessions, seq_messages, current_session_id,
                 send_enabled, input_enabled, category_cb, setup_in_progress,
                 setup_worker, workers, now, call, ret>>

\* main_window.py lines 328-351: the user answers the box and the handler goes on with
\* the window as the slots run meanwhile left it
delete_current_chat_answered(reply) ==
  /\ question_box
  /\ question_box' = FALSE
  /\ IF reply # "Yes"
     THEN UNCHANGED <<sessions, messages, current_session_id, send_enabled,
                      input_enabled>>
     ELSE
       LET db == delete_session(current_session_id)
       IN  /\ sessions' = db.sessions
           /\ messages' = db.messages
           /\ IF Len(db.sessions) > 0
              THEN /\ \E rows \in list_rows(db.sessions) :
                        current_session_id' = rows[1].id
                   /\ UNCHANGED <<send_enabled, input_enabled>>
              ELSE /\ current_session_id' = 0
                   /\ send_enabled' = FALSE
                   /\ input_enabled' = FALSE
  /\ UNCHANGED <<cfg, seq_sessions, seq_messages, category_cb, setup_in_progress,
                 setup_worker, workers, now, call, ret>>

\* main_window.py lines 354-357 (with load_session): a click on an entry of the history
on_session_clicked(sid) ==
  /\ ~question_box
  /\ \E k \in 1..Len(sessions) : sessions[k].id = sid
  /\ sid # 0
  /\ current_session_id' = sid
  /\ UNCHANGED <<cfg, sessions, messages, seq_sessions, seq_messages, send_enabled,
                 input_enabled, category_cb, setup_in_progress, setup_worker, workers,
                 now, question_box, call, ret>>

\* main_window.py lines 149-152: the user picks an entry of the combo box
select_category(c) ==
  /\ ~question_box
  /\ \E k \in 1..Len(CATEGORIES) : CATEGORIES[k] = c
  /\ category_cb # c
  /\ category_cb' = c
  /\ UNCHANGED <<cfg, sessions, messages, seq_sessions, seq_messages, current_session_id,
                 send_enabled, input_enabled, setup_in_progress, setup_worker, workers,
                 now, question_box, call, ret>>

\* on_send handing the combo box's text to the Worker as it stands (lines 374-379 left out)
on_send_passing_selected(text) ==
  /\ ~question_box
  /\ send_enabled
  /\ seq_messages + Len(workers) + 2 <= MaxMessages
  /\ Len(workers) < MaxWorkers
  /\ LET question == normalized[text]
         selected == category_cb
     IN  IF current_session_id = 0 \/ question = <<>>
         THEN UNCHANGED <<sessions, messages, seq_messages, send_enabled, category_cb,
                          workers>>
         ELSE
           LET added == add_message(current_session_id, "user", QuestionHtml(question),
                                    None, None, now)
           IN  /\ UNCHANGED category_cb
               /\ messages' = added.messages
               /\ sessions' = added.sessions
               /\ seq_messages' = added.id
               /\ send_enabled' = FALSE
               /\ workers' = Append(workers, NewWorker(selected, question))
  /\ UNCHANGED <<cfg, seq_sessions, current_session_id, input_enabled,
                 setup_in_progress, setup_worker, now, question_box, call, ret>>

\* main_window.py lines 363-392: a click on the enabled send button with text typed
on_send(text) ==
  /\ ~question_box
  /\ send_enabled
  /\ seq_messages + Len(workers) + 2 <= MaxMessages
  /\ Len(workers) < MaxWorkers
  /\ LET question == normalized[text]
         selected == category_cb
         category == IF selected = AUTO_CATEGORY THEN inferred[question]
                     ELSE selected
     IN  IF current_session_id = 0 \/ question = <<>>
         THEN UNCHANGED <<sessions, messages, seq_messages, send_enabled, category_cb,
                          workers>>
         ELSE
           LET added == add_message(current_session_id, "user", QuestionHtml(question),
                                    None, None, now)
           IN  /\ category_cb' = category
               /\ messages' = added.messages
               /\ sessions' = added.sessions
               /\ seq_messages' = added.id
               /\ send_enabled' = FALSE
               /\ workers' = Append(workers, NewWorker(category, question))
  /\ UNCHANGED <<cfg, seq_sessions, current_session_id, input_enabled,
                 setup_in_progress, setup_worker, now, question_box, call, ret>>

\* main_window.py lines 394-406: done delivered to the main thread
on_done(k) ==
  /\ k \in 1..Len(workers)
  /\ workers[k].status = "emitted"
  /\ LET w     == workers[k]
         added == IF w.result.kind = "exception"
                  THEN add_message(current_session_id, "assistant",
                                   ErrorHtml(w.result), "red", "[]", now)
                  ELSE add_message(current_session_id, "assistant",
                                   format_answer(w.result.ans), w.light, w.sources_json, now)
     IN  IF added.raised
         THEN UNCHANGED <<sessions, messages, seq_messages, send_enabled>>
         ELSE /\ messages' = added.messages
              /\ sessions' = added.sessions
              /\ seq_messages' = added.id
              /\ send_enabled' = TRUE
  /\ workers' = SubSeq(workers, 1, k - 1) \o SubSeq(workers, k + 1, Len(workers))
  /\ UNCHANGED <<cfg, seq_sessions, current_session_id, input_enabled, category_cb,
                 setup_in_progress, setup_worker, now, question_box, call, ret>>

\* ollama_setup.py lines 283-288: OllamaSetupWorker.run emits finished_ok or
\* finished_error, as ensure_ollama_ready decides, or the thread dies of the exception
\* that ensure_ollama_ready raised and emits nothing
setup_run ==
  /\ setup_worker = "running"
  /\ \E emitted \in SetupOutcomes :
       setup_worker' = IF emitted = "none" THEN "died" ELSE emitted
  /\ UNCHANGED <<cfg, sessions, messages, seq_sessions, seq_messages, current_session_id,
                 send_enabled, input_enabled, category_cb, setup_in_progress, workers,
                 now, question_box, call, ret>>

\* main_window.py lines 247-255
on_setup_ok ==
  /\ setup_worker = "finished_ok"
  /\ setup_in_progress' = FALSE
  /\ send_enabled' = TRUE
  /\ setup_worker' = "handled"
  /\ UNCHANGED <<cfg, sessions, messages, seq_sessions, seq_messages, current_session_id,
                 input_enabled, category_cb, workers, now, question_box, call, ret>>

\* main_window.py lines 257-265
on_setup_error ==
  /\ setup_worker = "finished_error"
  /\ setup_in_progress' = FALSE
  /\ send_enabled' = TRUE
  /\ setup_worker' = "handled"
  /\ UNCHANGED <<cfg, sessions, messages, seq_sessions, seq_messages, current_session_id,
                 input_enabled, category_cb, workers, now, question_box, call, ret>>


\* main_window.py lines 92-208: the window after __init__ on an empty database: the
\* combo box on its first entry, the chat new_chat() created, and for Ollama the
\* setup worker started with the send button disabled
Init ==
  /\ cfg \in Configs
  /\ now = 0
  /\ sessions = << [id |-> 1, title |-> <<"Chat", 0>>, category |-> AUTO_CATEGORY,
                    created_at |-> 0, updated_at |-> 0] >>
  /\ messages = <<>>
  /\ seq_sessions = 1
  /\ seq_messages = 0
  /\ current_session_id = 1
  /\ input_enabled = TRUE
  /\ category_cb = CATEGORIES[1]
  /\ setup_in_progress = (cfg.llm_provider = "ollama")
  /\ setup_worker = IF cfg.llm_provider = "ollama" THEN "running" ELSE "none"
  /\ send_enabled = (cfg.llm_provider # "ollama")
  /\ workers = <<>>
  /\ question_box = FALSE
  /\ call = [fn |-> "none"]
  /\ ret = [done |-> FALSE]

\* A run's events are taken within one second of the clock: the handlers read it only
\* to stamp rows, and rows of equal updated_at are listed in every order (list_rows),
\* which covers each order of the history that later stamps would force
Next ==
  \/ new_chat
  \/ delete_current_chat
  \/ \E reply \in {"Yes", "No"} : delete_current_chat_answered(reply)
  \/ \E sid \in 1..MaxSessions : on_session_clicked(sid)
  \/ \E c \in {CATEGORIES[k] : k \in 1..Len(CATEGORIES)} : select_category(c)
  \/ \E text \in InputTexts : on_send(text)
  \/ \E k \in 1..MaxWorkers : WorkerRun(k)
  \/ \E k \in 1..MaxWorkers : on_done(k)
  \/ setup_run
  \/ on_setup_ok
  \/ on_setup_error

Spec == Init /\ [][Next]_vars

--------------------------------------------------------------------------
(* The functions called on their own, outside any window: call holds the    *)
(* arguments of one call and ret what the call gave.                        *)

\* no window is open and nothing is stored
NoWindow ==
  /\ cfg \in {c \in Configs : c.llm_provider = "mock"}
  /\ now = 0
  /\ sessions = <<>>
  /\ messages = <<>>
  /\ seq_sessions = 0
  /\ seq_messages = 0
  /\ current_session_id = 0
  /\ send_enabled = FALSE
  /\ input_enabled = FALSE
  /\ category_cb = CATEGORIES[1]
  /\ setup_in_progress = FALSE
  /\ setup_worker = "none"
  /\ workers = <<>>
  /\ question_box = FALSE

\* models.py line 15: risk_score: int = Field(ge=0, le=100)
MaxRiskScore == 100

\* models.py lines 13-15: the (traffic_light, risk_score) pairs that validate
Assessments ==
  {[traffic_light |-> l, risk_score |-> s, sources |-> <<>>] :
     l \in TrafficLight, s \in 0..MaxRiskScore}

\* ---- Worker.run's merge step on any valid answer and any heuristic score ----

InitMerge ==
  /\ NoWindow
  /\ call \in {[fn |-> "merge", ans |-> a, heur |-> h] :
                 a \in Assessments, h \in 0..MaxRiskScore}
  /\ ret = [done |-> FALSE]

\* main_window.py lines 78-87: the answer run() emits
CallMerge ==
  /\ call.fn = "merge"
  /\ ~ret.done
  /\ ret' = [done |-> TRUE, value |-> merge(call.ans, call.heur)]
  /\ UNCHANGED <<call, ui_vars>>

NextMerge == CallMerge

SpecMerge == InitMerge /\ [][NextMerge]_vars

\* green < yellow < red
Severity(light) ==
  CASE light = "green" -> 0 [] light = "yellow" -> 1 [] light = "red" -> 2

\* C1: the merge policy of Worker.run.  With heur_light the light of the heuristic
\* score: if heur_light is strictly more severe than the model's light, the result has
\* traffic_light = heur_light and risk_score = max(model score, heuristic score);
\* otherwise the result is the model's answer unchanged.  So the merged light is never
\* less severe than the heuristic's or the model's, (green,20) with (red,80) gives
\* (red,80), and (red,90) with (yellow,40) gives (red,90).
C1_MergePolicy ==
  (call.fn = "merge" /\ ret.done) =>
    LET model      == call.ans
        heur_score == call.heur
        heur_light == traffic_light_from_score(heur_score)
        merged     == ret.value
    IN  /\ Severity(heur_light) > Severity(model.traffic_light) =>
             /\ merged.traffic_light = heur_light
             /\ merged.risk_score =
                  (IF model.risk_score >= heur_score THEN model.risk_score
                   ELSE heur_score)
        /\ Severity(heur_light) <= Severity(model.traffic_light) => merged = model
        /\ Severity(merged.traffic_light) >= Severity(heur_light)
        /\ Severity(merged.traffic_light) >= Severity(model.traffic_light)
        /\ (model.traffic_light = "green" /\ model.risk_score = 20 /\ heur_score = 80) =>
             (merged.traffic_light = "red" /\ merged.risk_score = 80)
        /\ (model.traffic_light = "red" /\ model.risk_score = 90 /\ heur_score = 40) =>
             (merged.traffic_light = "red" /\ merged.risk_score = 90)

\* the heuristic has overridden a milder model light and raised the score
C1_Witness ==
  /\ call.fn = "merge"
  /\ ret.done
  /\ call.ans.traffic_light = "green"
  /\ call.ans.risk_score = 20
  /\ call.heur = 80
  /\ ret.value.traffic_light = "red"
  /\ ret.value.risk_score = 80

\* C2: every assessment emitted after the merge step, for any valid model answer and
\* any heuristic score, has risk_score in 0..100 and a traffic_light equal to
\* traffic_light_from_score(risk_score).
C2_ScoreConsistentWithLight ==
  (call.fn = "merge" /\ ret.done) =>
    /\ ret.value.risk_score \in 0..MaxRiskScore
    /\ traffic_light_from_score(ret.value.risk_score) = ret.value.traffic_light

\* ---- traffic_light_from_score on every pair of scores ----

InitLight ==
  /\ NoWindow
  /\ call \in {[fn |-> "traffic_light_from_score", score |-> s, other |-> o] :
                 s \in 0..MaxRiskScore, o \in 0..MaxRiskScore}
  /\ ret = [done |-> FALSE]

\* utils.py lines 37-42, called on the two scores
CallLight ==
  /\ call.fn = "traffic_light_from_score"
  /\ ~ret.done
  /\ ret' = [done |-> TRUE, value |-> traffic_light_from_score(call.score),
             other |-> traffic_light_from_score(call.other)]
  /\ UNCHANGED <<call, ui_vars>>

NextLight == CallLight

SpecLight == InitLight /\ [][NextLight]_vars

\* C10: for every integer score in 0..100, traffic_light_from_score gives red iff
\* score >= 70, yellow iff 35 <= score <= 69, green iff score <= 34 (0 and 34 green, 35
\* and 69 yellow, 70 and 100 red), and a higher score never gives a milder light.
C10_BoundaryExact ==
  (call.fn = "traffic_light_from_score" /\ ret.done) =>
    /\ (ret.value = "red") <=> (call.score >= 70)
    /\ (ret.value = "yellow") <=> (35 <= call.score /\ call.score <= 69)
    /\ (ret.value = "green") <=> (call.score <= 34)
    /\ call.score \in {0, 34} => ret.value = "green"
    /\ call.score \in {35, 69} => ret.value = "yellow"
    /\ call.score \in {70, 100} => ret.value = "red"
    /\ call.score <= call.other => Severity(ret.value) <= Severity(ret.other)

\* the call on the first red score, next to the last yellow one
C10_Witness ==
  /\ call.fn = "traffic_light_from_score"
  /\ ret.done
  /\ call.score = 69
  /\ call.other = 70
  /\ ret.value = "yellow"
  /\ ret.other = "red"

\* ---- heuristic_risk_score on texts put together from a few fragments ----

\* the longest text is this many fragments
MaxFragments == 2

\* "dluh", "Soud", "vypoved" and "pronajem" (with their diacritics), "smlouva",
\* "5000", "1 000", "12", "dnes", "pes"
Fragments ==
  { <<100, 108, 117, 104>>,
    <<83, 111, 117, 100>>,
    <<118, 253, 112, 111, 118, 283, 271>>,
    <<112, 114, 111, 110, 225, 106, 101, 109>>,
    <<115, 109, 108, 111, 117, 118, 97>>,
    <<53, 48, 48, 48>>,
    <<49, 32, 48, 48, 48>>,
    <<49, 50>>,
    <<100, 110, 101, 115>>,
    <<112, 101, 115>> }

\* the texts of at most n fragments, separated by one space
RECURSIVE FragmentTexts(_)
FragmentTexts(n) ==
  IF n = 0 THEN {<<>>}
  ELSE LET shorter == FragmentTexts(n - 1)
       IN  shorter \cup {IF s = <<>> THEN f ELSE s \o <<32>> \o f :
                           s \in shorter, f \in Fragments}

\* a term the text may get in addition: "policie" (red), "rozvod" (yellow)
ExtraTerms ==
  { <<112, 111, 108, 105, 99, 105, 101>>, <<114, 111, 122, 118, 111, 100>> }

InitHeur ==
  /\ NoWindow
  /\ call \in {[fn |-> "heuristic_risk_score", text |-> t, extra |-> e, category |-> c] :
                 t \in FragmentTexts(MaxFragments), e \in ExtraTerms,
                 c \in {TrestniPravo, ObcanskePravo}}
  /\ ret = [done |-> FALSE]

\* utils.py lines 96-130, called on the text and on the text with the further term
CallHeur ==
  /\ call.fn = "heuristic_risk_score"
  /\ ~ret.done
  /\ ret' = [done |-> TRUE,
             value |-> heuristic_risk_score(call.text, call.category),
             with_extra |-> heuristic_risk_score(call.text \o <<32>> \o call.extra,
                                                 call.category)]
  /\ UNCHANGED <<call, ui_vars>>

NextHeur == CallHeur

SpecHeur == InitHeur /\ [][NextHeur]_vars

\* the distinct terms of a list that occur in t
TermsPresent(terms, t) ==
  {terms[i] : i \in {j \in 1..Len(terms) : IsSubstring(terms[j], t)}}

\* the five counts of claim C9 for a text and a category
Counts(text, category) ==
  LET t == Lower(text)
  IN  [r |-> Cardinality(TermsPresent(red_terms, t)),
       y |-> Cardinality(TermsPresent(yellow_terms, t)),
       m |-> IF HasMoney(t) THEN 1 ELSE 0,
       u |-> IF HasUrgency(t) THEN 1 ELSE 0,
       c |-> IF StartsWith(Lower(category), <<116, 114, 101, 115, 116>>) THEN 1 ELSE 0]

\* C9: heuristic_risk_score returns min(100, 10 + 30*r + 15*y + 15*m + 15*u + 10*c), r
\* and y the numbers of distinct red-list and yellow-list terms present (a term counts
\* once however often it occurs), m, u, c in {0,1} the flags of a money pattern, an
\* urgency phrase and a category starting with "trest".  So the result does not
\* decrease when a further red or yellow term becomes present with the rest fixed, is
\* never above 100, and is exactly 10 when r = y = m = u = c = 0.
C9_HeuristicFormula ==
  (call.fn = "heuristic_risk_score" /\ ret.done) =>
    LET n     == Counts(call.text, call.category)
        n2    == Counts(call.text \o <<32>> \o call.extra, call.category)
        sum   == 10 + 30 * n.r + 15 * n.y + 15 * n.m + 15 * n.u + 10 * n.c
        sum2  == 10 + 30 * n2.r + 15 * n2.y + 15 * n2.m + 15 * n2.u + 10 * n2.c
    IN  /\ ret.value = (IF sum > 100 THEN 100 ELSE sum)
        /\ ret.with_extra = (IF sum2 > 100 THEN 100 ELSE sum2)
        /\ ret.value <= 100
        /\ (n.r = 0 /\ n.y = 0 /\ n.m = 0 /\ n.u = 0 /\ n.c = 0) => ret.value = 10
        /\ (n2.r >= n.r /\ n2.y >= n.y /\ n2.m = n.m /\ n2.u = n.u) =>
             ret.with_extra >= ret.value

\* "dluh dluh" in a criminal matter: one red term twice, scored once, and the further
\* red term raises the score
C9_Witness ==
  /\ call.fn = "heuristic_risk_score"
  /\ ret.done
  /\ call.text = <<100, 108, 117, 104, 32, 100, 108, 117, 104>>
  /\ call.category = TrestniPravo
  /\ call.extra = <<112, 111, 108, 105, 99, 105, 101>>
  /\ ret.value = 50
  /\ ret.with_extra = 80

\* ---- search_recent_decisions against every answer of the open-data API ----

\* the widest retrieval window and the largest JUSTICE_MAX_ITEMS_PER_DAY tried
MaxLookbackDays == 3
MaxItemsPerDay == 3

\* "", "a by u", "aby kde", "dluh", "Mam dluh dluh u sousedy" (keywords mam, dluh,
\* sousedy)
SearchQuestions ==
  { <<>>,
    <<97, 32, 98, 121, 32, 117>>,
    <<97, 98, 121, 32, 107, 100, 101>>,
    <<100, 108, 117, 104>>,
    <<77, 225, 109, 32, 100, 108, 117, 104, 32, 100, 108, 117, 104, 32, 117, 32,
      115, 111, 117, 115, 101, 100, 121>> }

InitSearch ==
  /\ NoWindow
  /\ \E n \in (-1)..MaxLookbackDays :
       call \in {[fn |-> "search_recent_decisions", question |-> q, lookback_days |-> n,
                  max_items_per_day |-> m, fetch |-> f] :
                   q \in SearchQuestions, m \in (-1)..MaxItemsPerDay, f \in Fetches(n)}
  /\ ret = [done |-> FALSE]

\* justice_api.py lines 32-80, with fetch_day answering as call.fetch says
CallSearch ==
  /\ call.fn = "search_recent_decisions"
  /\ ~ret.done
  /\ ret' = [done |-> TRUE,
             value |-> search_recent_decisions(call.question, call.lookback_days,
                                               call.max_items_per_day, call.fetch)]
  /\ UNCHANGED <<call, ui_vars>>

NextSearch == CallSearch

SpecSearch == InitSearch /\ [][NextSearch]_vars

\* the maximal runs of keyword characters in t, as <<first, last>>
Tokens(t) ==
  {ij \in (1..Len(t)) \X (1..Len(t)) :
     /\ ij[1] <= ij[2]
     /\ \A k \in ij[1]..ij[2] : KeywordChar(t[k])
     /\ ij[1] = 1 \/ ~KeywordChar(t[ij[1] - 1])
     /\ ij[2] = Len(t) \/ ~KeywordChar(t[ij[2] + 1])}

\* the question yields no keywords: it is empty, or each of its tokens is a stopword
\* or shorter than 3 characters
NoKeywords(question) ==
  LET t == Lower(question)
  IN  \A ij \in Tokens(t) :
        ij[2] - ij[1] + 1 < 3 \/ SubSeq(t, ij[1], ij[2]) \in CZ_STOPWORDS

\* the days of the window whose fetch raises
RaisingDays(fetch) == {i \in DOMAIN fetch : fetch[i].kind = "raise"}

\* what the API would have had to answer for the raising days to contribute nothing
WithoutRaisingDays(fetch) ==
  [i \in DOMAIN fetch |->
     IF fetch[i].kind = "raise"
     THEN [kind |-> "json", payload |-> [type |-> "object", has_items |-> FALSE]]
     ELSE fetch[i]]

\* the items of day i (1 for today) that the scan reads, in order
ItemsRead(fetch, i, max_items_per_day) ==
  IF fetch[i].kind = "json" /\ fetch[i].payload.type = "object"
     /\ fetch[i].payload.has_items /\ fetch[i].payload.items.type = "list"
  THEN PySlice(fetch[i].payload.items.elems, max_items_per_day)
  ELSE <<>>

\* C6: with non-empty keywords and lookback_days = n > 0, exactly one fetch is made for
\* each day offset 0..n-1, and for any set of days whose fetch raises the result is the
\* one computed from the remaining days alone; if a day raises and another day has a
\* keyword-overlapping item, the result is not empty.
C6_RaisingDaysSkipped ==
  (call.fn = "search_recent_decisions" /\ ret.done
     /\ call.lookback_days > 0 /\ ~NoKeywords(call.question)) =>
    LET n        == call.lookback_days
        keywords == extract_keywords(call.question, DEFAULT_MAX_KEYWORDS)
        rest     == search_recent_decisions(call.question, n, call.max_items_per_day,
                                            WithoutRaisingDays(call.fetch))
    IN  /\ ~ret.value.raised
        /\ ret.value.calls = [k \in 1..n |-> k - 1]
        /\ ret.value.value = rest.value
        /\ (/\ RaisingDays(call.fetch) # {}
            /\ \E i \in DOMAIN call.fetch :
                 \E k \in 1..Len(ItemsRead(call.fetch, i, call.max_items_per_day)) :
                   LET it == ItemsRead(call.fetch, i, call.max_items_per_day)[k]
                   IN  it.type = "object" /\ Overlap(keywords, ItemBlob(it)) >= 1)
           => ret.value.value # <<>>

\* C7: search_recent_decisions returns the empty list and calls fetch_day zero times
\* whenever lookback_days <= 0 or the question yields no keywords (an empty question, or
\* only stopwords and tokens shorter than 3 characters).
C7_NothingToSearch ==
  (call.fn = "search_recent_decisions" /\ ret.done
     /\ (call.lookback_days <= 0 \/ NoKeywords(call.question))) =>
    /\ ~ret.value.raised
    /\ ret.value.value = <<>>
    /\ ret.value.calls = <<>>

\* a question of stopwords and short tokens, asked over a window whose days have items
C7_Witness ==
  /\ call.fn = "search_recent_decisions"
  /\ ret.done
  /\ call.question = <<97, 32, 98, 121, 32, 117>>
  /\ call.lookback_days = 2
  /\ call.max_items_per_day = MaxItemsPerDay
  /\ \A i \in 1..2 : Len(ItemsRead(call.fetch, i, call.max_items_per_day)) > 0
  /\ ret.value.value = <<>>
  /\ ret.value.calls = <<>>

\* the items the scan reads that overlap the keywords, as <<day, index in the day>>
Candidates(fetch, max_items_per_day, keywords) ==
  {di \in (DOMAIN fetch) \X (1..(MaxItemsPerDay + 1)) :
     /\ di[2] <= Len(ItemsRead(fetch, di[1], max_items_per_day))
     /\ Overlap(keywords, ItemBlob(ItemsRead(fetch, di[1], max_items_per_day)[di[2]])) >= 1}

\* where the scan met a returned record: the day its item was published on and the
\* item's place among that day's items
ScanPlace(fetch, max_items_per_day, record) ==
  LET day == record.datum_zverejneni[1] - 48 + 1
  IN  <<day, CHOOSE k \in 1..Len(ItemsRead(fetch, day, max_items_per_day)) :
               ItemsRead(fetch, day, max_items_per_day)[k].jednaciCislo
                 = record.jednaci_cislo>>

\* place x is scanned before place y: a more recent day, or earlier in the same day
ScannedBefore(x, y) == x[1] < y[1] \/ (x[1] = y[1] /\ x[2] < y[2])

\* C8: the list search_recent_decisions returns has at most 5 records, only of items
\* with overlap >= 1; each record's score is overlap / number of question keywords and
\* lies in (0,1]; the records are in non-increasing score order, records of equal score
\* in scan order (most recent day first, then the order within the day); no candidate
\* left out has a strictly higher score than a returned one.
C8_RankedTopFive ==
  (call.fn = "search_recent_decisions" /\ ret.done /\ ~ret.value.raised) =>
    LET out      == ret.value.value
        keywords == extract_keywords(call.question, DEFAULT_MAX_KEYWORDS)
        fetch    == call.fetch
        most     == call.max_items_per_day
        overlap(record) ==
          Overlap(keywords,
                  Lower(Join(<<32>>, <<record.predmet_rizeni>> \o record.klicova_slova
                                       \o record.zminena_ustanoveni)))
        place(k) == ScanPlace(fetch, most, out[k])
        returned == {place(k) : k \in 1..Len(out)}
    IN  /\ Len(out) <= 5
        /\ \A k \in 1..Len(out) :
             /\ overlap(out[k]) >= 1
             /\ out[k].score = <<overlap(out[k]), Len(keywords)>>
             /\ 0 < out[k].score[1]
             /\ out[k].score[1] <= out[k].score[2]
             /\ place(k) \in Candidates(fetch, most, keywords)
        /\ \A k \in 1..(Len(out) - 1) :
             /\ out[k].score[1] >= out[k + 1].score[1]
             /\ out[k].score[1] = out[k + 1].score[1] =>
                  ScannedBefore(place(k), place(k + 1))
        /\ \A di \in Candidates(fetch, most, keywords) \ returned :
             \A k \in 1..Len(out) :
               Overlap(keywords, ItemBlob(ItemsRead(fetch, di[1], most)[di[2]]))
                 <= out[k].score[1]

\* six candidates over three days, five returned: the best first, equal scores in scan
\* order, and the candidate left out is one of the lowest
C8_Witness ==
  /\ call.fn = "search_recent_decisions"
  /\ ret.done
  /\ ~ret.value.raised
  /\ call.lookback_days = 3
  /\ Cardinality(Candidates(call.fetch, call.max_items_per_day,
                            extract_keywords(call.question, DEFAULT_MAX_KEYWORDS))) = 6
  /\ Len(ret.value.value) = 5
  /\ ret.value.value[1].score[1] > ret.value.value[2].score[1]
  /\ ret.value.value[4].score[1] = ret.value.value[5].score[1]
  /\ ret.value.value[4].datum_zverejneni # ret.value.value[5].datum_zverejneni

--------------------------------------------------------------------------
(* The window: submissions and their replies.                               *)

\* C3: at most one Worker is in flight at any time: from the on_send that starts a
\* Worker until that Worker's on_done the send button stays disabled, so that no second
\* on_send is accepted, whatever new_chat, session clicks, delete_current_chat and the
\* end of the Ollama setup do meanwhile.
C3_OneSubmissionInFlight ==
  /\ Len(workers) <= 1
  /\ Len(workers) > 0 => ~send_enabled

\* C4: when the pipeline of an accepted submission raised, on_done stores exactly one
\* assistant message with traffic_light "red" and sources_json "[]" and re-enables the
\* send button, whatever new_chat, session clicks and delete_current_chat did between
\* on_send and on_done.
C4_ErrorReplySaved ==
  [][\A k \in 1..MaxWorkers :
       (/\ k <= Len(workers)
        /\ workers[k].status = "emitted"
        /\ workers[k].result.kind = "exception"
        /\ on_done(k)) =>
         /\ seq_messages' = seq_messages + 1
         /\ Len(messages') = Len(messages) + 1
         /\ messages'[Len(messages')].id = seq_messages'
         /\ messages'[Len(messages')].role = "assistant"
         /\ messages'[Len(messages')].traffic_light = "red"
         /\ messages'[Len(messages')].sources_json = "[]"
         /\ send_enabled']_vars

\* C5: no failure of the retrieval reaches the user: whatever fetch_day answers,
\* Worker.run goes on to the provider, and what it emits is never an exception raised
\* by search_recent_decisions.
C5_RetrievalNeverFailsTheWorker ==
  \A k \in 1..Len(workers) :
    (workers[k].status = "emitted" /\ workers[k].result.kind = "exception") =>
      workers[k].result.raised_in # "search_recent_decisions"

--------------------------------------------------------------------------
(* The text functions of utils.py called on their own.                      *)

\* ---- infer_category on texts put together from a few fragments ----

\* "policie", "Soud", "trestni oznameni", "dluh", "smlouva", "paragraf",
\* "nejvyssi soud", "vypoved  z\tprace" (two spaces and a tab), "nss", "pes", with
\* their diacritics
InferFragments ==
  { <<112, 111, 108, 105, 99, 105, 101>>,
    <<83, 111, 117, 100>>,
    <<116, 114, 101, 115, 116, 110, 237, 32, 111, 122, 110, 225, 109, 101, 110, 237>>,
    <<100, 108, 117, 104>>,
    <<115, 109, 108, 111, 117, 118, 97>>,
    <<112, 97, 114, 97, 103, 114, 97, 102>>,
    <<110, 101, 106, 118, 121, 353, 353, 237, 32, 115, 111, 117, 100>>,
    <<118, 253, 112, 111, 118, 283, 271, 32, 32, 122, 9, 112, 114, 225, 99, 101>>,
    <<110, 115, 115>>,
    <<112, 101, 115>> }

\* the texts of at most n fragments of a set, separated by one space
RECURSIVE TextsOf(_, _)
TextsOf(fragments, n) ==
  IF n = 0 THEN {<<>>}
  ELSE LET shorter == TextsOf(fragments, n - 1)
       IN  shorter \cup {IF s = <<>> THEN f ELSE s \o <<32>> \o f :
                           s \in shorter, f \in fragments}

InitInfer ==
  /\ NoWindow
  /\ call \in {[fn |-> "infer_category", text |-> t] :
                 t \in TextsOf(InferFragments, MaxFragments)}
  /\ ret = [done |-> FALSE]

\* utils.py lines 45-93
CallInfer ==
  /\ call.fn = "infer_category"
  /\ ~ret.done
  /\ ret' = [done |-> TRUE, value |-> infer_category(call.text)]
  /\ UNCHANGED <<call, ui_vars>>

NextInfer == CallInfer

SpecInfer == InitInfer /\ [][NextInfer]_vars

\* the three domains in their order of priority, and each one's score for a text: 2
\* for every term of its list found in the normalized, lower-cased text
Domains == <<TrestniPravo, ObcanskePravo, PravniRad>>
DomainScores(text) ==
  LET t == Lower(normalize_text(text))
  IN  <<2 * Cardinality(TermsPresent(trest_terms, t)),
        2 * Cardinality(TermsPresent(obc_terms, t)),
        2 * Cardinality(TermsPresent(legal_terms, t))>>

\* C11: infer_category returns the domain whose score (2 per matched term of its list)
\* is highest; among domains tied for the highest non-zero score the earlier of
\* Criminal, Civil, General wins; when all three scores are 0 it returns General; the
\* result is always one of the three labels.
C11_HighestScoreWins ==
  (call.fn = "infer_category" /\ ret.done) =>
    LET s   == DomainScores(call.text)
        top == CHOOSE v \in {s[1], s[2], s[3]} : \A i \in 1..3 : s[i] <= v
        first == CHOOSE i \in 1..3 : s[i] = top /\ \A j \in 1..(i - 1) : s[j] < top
    IN  /\ \E i \in 1..3 : ret.value = Domains[i]
        /\ top = 0 => ret.value = PravniRad
        /\ top > 0 => ret.value = Domains[first]

\* "dluh nejvyssi soud": one term of each list, a three-way tie that Criminal wins
C11_Witness ==
  /\ call.fn = "infer_category"
  /\ ret.done
  /\ call.text = <<100, 108, 117, 104, 32, 110, 101, 106, 118, 121, 353, 353, 237, 32,
                   115, 111, 117, 100>>
  /\ DomainScores(call.text) = <<2, 2, 2>>
  /\ ret.value = TrestniPravo

\* ---- extract_keywords on texts of a few words, for small and default caps ----

\* the largest max_keywords tried besides the default
MaxKeywordsCap == 3

\* "Mam", "dluh", "DLUH", "u", "aby", "sousedy", "ab", "x-1", " \t" (a space and a tab)
KeywordFragments ==
  { <<77, 225, 109>>,
    <<100, 108, 117, 104>>,
    <<68, 76, 85, 72>>,
    <<117>>,
    <<97, 98, 121>>,
    <<115, 111, 117, 115, 101, 100, 121>>,
    <<97, 98>>,
    <<120, 45, 49>>,
    <<32, 9>> }

\* "Mam dluh dluh u sousedy"
KeywordExample ==
  <<77, 225, 109, 32, 100, 108, 117, 104, 32, 100, 108, 117, 104, 32, 117, 32, 115,
    111, 117, 115, 101, 100, 121>>

InitKeywords ==
  /\ NoWindow
  /\ call \in {[fn |-> "extract_keywords", text |-> t, max_keywords |-> m] :
                 t \in TextsOf(KeywordFragments, MaxFragments) \cup {KeywordExample},
                 m \in ((-1)..MaxKeywordsCap) \cup {DEFAULT_MAX_KEYWORDS}}
  /\ ret = [done |-> FALSE]

\* utils.py lines 22-35
CallKeywords ==
  /\ call.fn = "extract_keywords"
  /\ ~ret.done
  /\ ret' = [done |-> TRUE, value |-> extract_keywords(call.text, call.max_keywords)]
  /\ UNCHANGED <<call, ui_vars>>

NextKeywords == CallKeywords

SpecKeywords == InitKeywords /\ [][NextKeywords]_vars

\* where word first occurs as a token of t
FirstOccurrence(word, t) ==
  LET starts == {ij[1] : ij \in {x \in Tokens(t) : SubSeq(t, x[1], x[2]) = word}}
  IN  IF starts = {} THEN 0
      ELSE CHOOSE p \in starts : \A q \in starts : p <= q

\* what claim C12 says of a result apart from its length: no duplicates, no stopword,
\* no token shorter than 3 characters, tokens of the text in order of first occurrence
WellFormedKeywords(out, text) ==
  LET t == Lower(normalize_text(text))
  IN  /\ \A i \in 1..Len(out) : \A j \in 1..Len(out) : i # j => out[i] # out[j]
      /\ \A i \in 1..Len(out) :
           /\ out[i] \notin CZ_STOPWORDS
           /\ Len(out[i]) >= 3
           /\ FirstOccurrence(out[i], t) > 0
      /\ \A i \in 1..(Len(out) - 1) :
           FirstOccurrence(out[i], t) < FirstOccurrence(out[i + 1], t)

\* C12: for every text and every max_keywords (0 and negative values included),
\* extract_keywords returns a sequence without duplicates, without stopwords and tokens
\* shorter than 3 characters, in order of first occurrence, and never longer than
\* max_keywords (a negative cap allows as many keywords as a cap of 0: none); the
\* empty text gives the empty sequence.
C12_KeywordsWithinCap ==
  (call.fn = "extract_keywords" /\ ret.done) =>
    /\ WellFormedKeywords(ret.value, call.text)
    /\ Len(ret.value) <= Max(call.max_keywords, 0)
    /\ call.text = <<>> => ret.value = <<>>

\* ---- normalize_text on texts with every kind of whitespace ----

\* " a", "b\t\n", "a \t\nb", "\t", " ", "\n", "a", a no-break space, a file
\* separator, "\r\n"
NormalizeFragments ==
  { <<32, 97>>,
    <<98, 9, 10>>,
    <<97, 32, 9, 10, 98>>,
    <<9>>,
    <<32>>,
    <<10>>,
    <<97>>,
    <<160>>,
    <<28>>,
    <<13, 10>> }

InitNormalize ==
  /\ NoWindow
  /\ call \in {[fn |-> "normalize_text", text |-> t] :
                 t \in TextsOf(NormalizeFragments, MaxFragments)}
  /\ ret = [done |-> FALSE]

\* utils.py lines 19-20
CallNormalize ==
  /\ call.fn = "normalize_text"
  /\ ~ret.done
  /\ ret' = [done |-> TRUE, value |-> normalize_text(call.text)]
  /\ UNCHANGED <<call, ui_vars>>

NextNormalize == CallNormalize

SpecNormalize == InitNormalize /\ [][NextNormalize]_vars

\* C13: normalize_text is idempotent, and its result neither starts nor ends with
\* whitespace and holds no whitespace character other than single spaces between
\* non-whitespace characters (runs with tabs and newlines are collapsed too).
C13_NormalizeIdempotent ==
  (call.fn = "normalize_text" /\ ret.done) =>
    LET r == ret.value
    IN  /\ normalize_text(r) = r
        /\ r # <<>> => (~IsSpace(r[1]) /\ ~IsSpace(r[Len(r)]))
        /\ \A i \in 1..Len(r) :
             IsSpace(r[i]) =>
               /\ r[i] = 32
               /\ 1 < i /\ i < Len(r)
               /\ ~IsSpace(r[i - 1]) /\ ~IsSpace(r[i + 1])

\* " a a \t\nb" has become "a a b"
C13_Witness ==
  /\ call.fn = "normalize_text"
  /\ call.text = <<32, 97, 32, 97, 32, 9, 10, 98>>
  /\ ret.done
  /\ ret.value = <<97, 32, 97, 32, 98>>

--------------------------------------------------------------------------
(* The window: the Ollama setup.                                            *)

\* C14: with llm_provider = "ollama" the send button is disabled in every state from
\* the start of the setup worker until _on_setup_ok or _on_setup_error has handled its
\* end, so that no on_send is accepted during the setup, whatever new_chat, session
\* clicks and delete_current_chat do meanwhile.
C14_SendDisabledDuringSetup ==
  (cfg.llm_provider = "ollama" /\ setup_in_progress) => ~send_enabled

--------------------------------------------------------------------------
(* The database on its own: any sequence of create_session, add_message    *)
(* and delete_session calls, on any session id, while the clock advances.  *)

MaxDbSessions == 2
MaxDbMessages == 2
MaxClock == 1

\* what a caller appends: the question as on_send stores it, a reply as on_done does
MessagePayloads ==
  { [role |-> "user", content |-> "question", traffic_light |-> None,
     sources_json |-> None],
    [role |-> "assistant", content |-> "answer", traffic_light |-> "red",
     sources_json |-> "[]"] }

InitDb ==
  /\ NoWindow
  /\ call = [fn |-> "none"]
  /\ ret = [done |-> FALSE]

window_vars == <<cfg, current_session_id, send_enabled, input_enabled, category_cb,
                 setup_in_progress, setup_worker, workers, question_box>>

\* db.py lines 46-54
DbCreateSession(title, category) ==
  /\ seq_sessions < MaxDbSessions
  /\ LET created == create_session(title, category)
     IN  /\ sessions' = created.sessions
         /\ seq_sessions' = created.id
         /\ ret' = [done |-> TRUE, raised |-> FALSE, value |-> created.id]
  /\ call' = [fn |-> "create_session"]
  /\ UNCHANGED <<messages, seq_messages, now, window_vars>>

\* db.py lines 69-87; session_id 0 is None. Between the two readings of the clock the
\* INSERT runs, and the second may have passed: the call ends at the later reading
DbAddMessage(session_id, p) ==
  /\ seq_messages < MaxDbMessages
  /\ \E later \in now..MaxClock :
       LET added == add_message(session_id, p.role, p.content, p.traffic_light,
                                p.sources_json, later)
       IN  /\ messages' = added.messages
           /\ sessions' = added.sessions
           /\ seq_messages' = IF added.raised THEN seq_messages ELSE added.id
           /\ ret' = [done |-> TRUE, raised |-> added.raised, value |-> added.id]
           /\ now' = IF added.raised THEN now ELSE later
  /\ call' = [fn |-> "add_message", session_id |-> session_id]
  /\ UNCHANGED <<seq_sessions, window_vars>>

\* db.py lines 63-67
DbDeleteSession(session_id) ==
  /\ LET db == delete_session(session_id)
     IN  /\ sessions' = db.sessions
         /\ messages' = db.messages
  /\ call' = [fn |-> "delete_session", session_id |-> session_id]
  /\ ret' = [done |-> TRUE, raised |-> FALSE, value |-> None]
  /\ UNCHANGED <<seq_sessions, seq_messages, now, window_vars>>

\* db.py lines 8-9: a second passes between two calls
DbTick ==
  /\ now < MaxClock
  /\ now' = now + 1
  /\ UNCHANGED <<sessions, messages, seq_sessions, seq_messages, window_vars, call, ret>>

NextDb ==
  \/ DbCreateSession("Chat", TrestniPravo)
  \/ \E session_id \in 0..MaxDbSessions, p \in MessagePayloads :
       DbAddMessage(session_id, p)
  \/ \E session_id \in 1..MaxDbSessions : DbDeleteSession(session_id)
  \/ DbTick

SpecDb == InitDb /\ [][NextDb]_vars

\* the rows of a table, as a set
Rows(table) == {table[k] : k \in 1..Len(table)}

\* C15: after delete_session(s), whatever create_session, add_message and
\* delete_session calls came before, get_messages(s) is empty and list_sessions() does
\* not contain s, while every other session and the messages of every other session
\* are as they were.
C15_DeleteSessionFrame ==
  [][\A s \in 1..MaxDbSessions :
       DbDeleteSession(s) =>
         /\ get_messages(s)' = <<>>
         /\ list_sessions' # {}
         /\ \A rows \in list_sessions' : \A j \in 1..Len(rows) : rows[j].id # s
         /\ Rows(sessions') = {row \in Rows(sessions) : row.id # s}
         /\ \A t \in (0..MaxDbSessions) \ {s} : get_messages(t)' = get_messages(t)]_vars

\* session 1 has just been deleted with its message; session 2 and its message remain
C15_Witness ==
  /\ call.fn = "delete_session"
  /\ call.session_id = 1
  /\ seq_sessions = 2
  /\ seq_messages = 2
  /\ Len(sessions) = 1
  /\ sessions[1].id = 2
  /\ Len(get_messages(2)) = 1
  /\ get_messages(1) = <<>>

\* list a is the beginning of list b
IsPrefix(a, b) == Len(a) <= Len(b) /\ SubSeq(b, 1, Len(a)) = a

\* C16: messages are append-only and ordered. add_message on a session returns the id
\* of the row it inserted, larger than every stored id, and get_messages of that
\* session is then what it was, followed by that row with the role, content,
\* traffic_light and sources_json given; the messages of the other sessions stay. No
\* step other than delete_session changes or removes a stored message, and
\* get_messages always lists the rows in strictly increasing id.
C16_MessagesAppendOnly ==
  [][/\ \A s \in 1..MaxDbSessions, p \in MessagePayloads :
          DbAddMessage(s, p) =>
            LET before == get_messages(s)
                after  == get_messages(s)'
                last   == after[Len(after)]
            IN  /\ ~ret'.raised
                /\ Len(after) = Len(before) + 1
                /\ IsPrefix(before, after)
                /\ last.id = ret'.value
                /\ last.role = p.role
                /\ last.content = p.content
                /\ last.traffic_light = p.traffic_light
                /\ last.sources_json = p.sources_json
                /\ \A k \in 1..Len(messages) : messages[k].id < ret'.value
                /\ \A t \in (0..MaxDbSessions) \ {s} : get_messages(t)' = get_messages(t)
     /\ (\A s \in 1..MaxDbSessions : ~DbDeleteSession(s)) =>
          \A t \in 0..MaxDbSessions : IsPrefix(get_messages(t), get_messages(t)')
     /\ \A t \in 0..MaxDbSessions :
          LET rows == get_messages(t)'
          IN  \A j \in 1..(Len(rows) - 1) : rows[j].id < rows[j + 1].id]_vars

\* session 1 holds the question and then the reply that has just been appended
C16_Witness ==
  /\ call.fn = "add_message"
  /\ call.session_id = 1
  /\ ~ret.raised
  /\ ret.value = 2
  /\ \E k \in 1..Len(sessions) : sessions[k].id = 1
  /\ LET rows == get_messages(1)
     IN  /\ Len(rows) = 2
         /\ rows[1].id = 1 /\ rows[1].role = "user" /\ rows[1].traffic_light = None
         /\ rows[2].id = 2 /\ rows[2].role = "assistant"
         /\ rows[2].traffic_light = "red" /\ rows[2].sources_json = "[]"

\* C17: add_message on an existing session sets updated_at of that session to the
\* current time (the clock as the call ends), which is not earlier than its previous
\* value or its created_at, and leaves every other session row as it was;
\* list_sessions returns all the sessions in non-increasing updated_at, so that a
\* session that has just received a message at a time later than updated_at of every
\* other session is listed first.
C17_UpdatedAtBumped ==
  [][/\ \A s \in 1..MaxDbSessions, p \in MessagePayloads :
          DbAddMessage(s, p) =>
            /\ Len(sessions') = Len(sessions)
            /\ \A k \in 1..Len(sessions) :
                 IF sessions[k].id = s
                 THEN /\ sessions'[k] = [sessions[k] EXCEPT !.updated_at = now']
                      /\ sessions'[k].updated_at >= sessions[k].updated_at
                      /\ sessions'[k].updated_at >= sessions[k].created_at
                 ELSE sessions'[k] = sessions[k]
            /\ ((\E k \in 1..Len(sessions) : sessions[k].id = s)
                /\ (\A k \in 1..Len(sessions) :
                      sessions[k].id # s => sessions[k].updated_at < now')) =>
                 \A rows \in list_sessions' : rows[1].id = s
     /\ list_sessions' # {}
     /\ \A rows \in list_sessions' :
          /\ Len(rows) = Len(sessions')
          /\ Rows(rows) = Rows(sessions')
          /\ \A j \in 1..(Len(rows) - 1) : rows[j].updated_at >= rows[j + 1].updated_at]_vars

\* sessions 1 and 2 were created at time 0; session 1 has just received a message at
\* time 1 and is listed before session 2
C17_Witness ==
  /\ call.fn = "add_message"
  /\ call.session_id = 1
  /\ ~ret.raised
  /\ now = 1
  /\ Len(sessions) = 2
  /\ sessions[1] = [id |-> 1, title |-> "Chat", category |-> TrestniPravo,
                    created_at |-> 0, updated_at |-> 1]
  /\ sessions[2].id = 2
  /\ sessions[2].updated_at = 0
  /\ \A rows \in list_sessions : rows[1].id = 1 /\ rows[2].id = 2

--------------------------------------------------------------------------
(* The window: the category of a stored session.                            *)

\* C18: the entry "Auto (rozpoznat oblast)" of the combo box is never stored as the
\* category of a session: in every state every row of sessions has one of the three
\* legal domains as its category, whatever the combo box showed when new_chat ran.
C18_AutoNeverStored ==
  \A k \in 1..Len(sessions) :
    sessions[k].category \in {TrestniPravo, ObcanskePravo, PravniRad}

--------------------------------------------------------------------------
(* lawmate_app/llm/providers.py: generate() of the three providers, with    *)
(* json.loads and LawmateAnswer.model_validate.                             *)
(*                                                                          *)
(* A JSON value is kept with its type: null, a bool, an int, a str (its     *)
(* code points), a list (its items) or a dict (its keys and their values,   *)
(* in the order read).                                                      *)

JNull == [t |-> "null"]
JBool(b) == [t |-> "bool", b |-> b]
JInt(n) == [t |-> "int", n |-> n]
JStr(s) == [t |-> "str", s |-> s]
JList(items) == [t |-> "list", items |-> items]
JDict(keys, vals) == [t |-> "dict", keys |-> keys, vals |-> vals]

\* text[i] of a text, 0 beyond its end
At(text, i) == IF i \in 1..Len(text) THEN text[i] ELSE 0

\* str.find(ch) and str.rfind(ch) for one character, as 1-based positions: 0 is
\* Python's -1
Positions(text, ch) == {i \in 1..Len(text) : text[i] = ch}
find(text, ch) ==
  LET ps == Positions(text, ch)
  IN  IF ps = {} THEN 0 ELSE CHOOSE i \in ps : \A j \in ps : i <= j
\* the first position taken where the last one is meant
rfind_from_the_left(text, ch) == find(text, ch)
rfind(text, ch) ==
  LET ps == Positions(text, ch)
  IN  IF ps = {} THEN 0 ELSE CHOOSE i \in ps : \A j \in ps : j <= i

\* json.loads(text) of the standard library, for texts without backslash escapes,
\* fractions, exponents, NaN and Infinity: a recursive descent over the text, each
\* part giving whether it parsed, its value, and the position after it
JsonWhitespace(c) == c \in {32, 9, 10, 13}
RECURSIVE SkipWhitespace(_, _)
SkipWhitespace(text, i) ==
  IF JsonWhitespace(At(text, i)) THEN SkipWhitespace(text, i + 1) ELSE i

NotJson == [ok |-> FALSE, value |-> JNull, pos |-> 0]
Parsed(value, pos) == [ok |-> TRUE, value |-> value, pos |-> pos]

\* the closing quote of the string whose characters start at i, 0 when there is
\* none before a control character or the end of the text
RECURSIVE StringEnd(_, _)
StringEnd(text, i) ==
  IF At(text, i) = 34 THEN i
  ELSE IF At(text, i) < 32 \/ At(text, i) = 92 THEN 0
  ELSE StringEnd(text, i + 1)

ParseString(text, i) ==
  LET e == StringEnd(text, i + 1)
  IN  IF At(text, i) # 34 \/ e = 0 THEN NotJson
      ELSE Parsed(JStr(SubSeq(text, i + 1, e - 1)), e + 1)

RECURSIVE DigitsEnd(_, _)
DigitsEnd(text, i) == IF IsDigit(At(text, i)) THEN DigitsEnd(text, i + 1) ELSE i
RECURSIVE DecimalValue(_)
DecimalValue(digits) ==
  IF digits = <<>> THEN 0
  ELSE 10 * DecimalValue(SubSeq(digits, 1, Len(digits) - 1)) + (digits[Len(digits)] - 48)

\* -?(0|[1-9]\d*): a leading 0 is a number of its own
ParseNumber(text, i) ==
  LET neg == At(text, i) = 45
      j   == IF neg THEN i + 1 ELSE i
      e   == IF At(text, j) = 48 THEN j + 1 ELSE DigitsEnd(text, j)
      n   == DecimalValue(SubSeq(text, j, e - 1))
  IN  IF e = j THEN NotJson
      ELSE Parsed(JInt(IF neg THEN 0 - n ELSE n), e)

\* "null", "true", "false"
ParseLiteral(text, i) ==
  IF SubSeq(text, i, Min(i + 3, Len(text))) = <<110, 117, 108, 108>>
  THEN Parsed(JNull, i + 4)
  ELSE IF SubSeq(text, i, Min(i + 3, Len(text))) = <<116, 114, 117, 101>>
  THEN Parsed(JBool(TRUE), i + 4)
  ELSE IF SubSeq(text, i, Min(i + 4, Len(text))) = <<102, 97, 108, 115, 101>>
  THEN Parsed(JBool(FALSE), i + 5)
  ELSE NotJson

RECURSIVE ParseValue(_, _)
RECURSIVE ParseMembers(_, _, _, _)
RECURSIVE ParseElements(_, _, _)

\* the members of an object from the key at i on, after keys and vals
ParseMembers(text, i, keys, vals) ==
  LET k == ParseString(text, i)
      c == SkipWhitespace(text, k.pos)
      v == ParseValue(text, SkipWhitespace(text, c + 1))
      m == SkipWhitespace(text, v.pos)
      n == SkipWhitespace(text, m + 1)
  IN  IF ~k.ok THEN NotJson
      ELSE IF At(text, c) # 58 THEN NotJson
      ELSE IF ~v.ok THEN NotJson
      ELSE IF At(text, m) = 125
      THEN Parsed(JDict(Append(keys, k.value.s), Append(vals, v.value)), m + 1)
      ELSE IF At(text, m) = 44 /\ At(text, n) = 34
      THEN ParseMembers(text, n, Append(keys, k.value.s), Append(vals, v.value))
      ELSE NotJson

\* the elements of an array from the value at i on, after items
ParseElements(text, i, items) ==
  LET v == ParseValue(text, i)
      m == SkipWhitespace(text, v.pos)
  IN  IF ~v.ok THEN NotJson
      ELSE IF At(text, m) = 93 THEN Parsed(JList(Append(items, v.value)), m + 1)
      ELSE IF At(text, m) = 44
      THEN ParseElements(text, SkipWhitespace(text, m + 1), Append(items, v.value))
      ELSE NotJson

ParseValue(text, i) ==
  LET c == At(text, i)
      j == SkipWhitespace(text, i + 1)
  IN  IF c = 34 THEN ParseString(text, i)
      ELSE IF c = 123
      THEN (IF At(text, j) = 125 THEN Parsed(JDict(<<>>, <<>>), j + 1)
            ELSE ParseMembers(text, j, <<>>, <<>>))
      ELSE IF c = 91
      THEN (IF At(text, j) = 93 THEN Parsed(JList(<<>>), j + 1)
            ELSE ParseElements(text, j, <<>>))
      ELSE IF c = 45 \/ IsDigit(c) THEN ParseNumber(text, i)
      ELSE ParseLiteral(text, i)

\* json.loads(text): the value, or json.JSONDecodeError when the text is not one
\* JSON value with nothing but whitespace around it
json_loads(text) ==
  LET v == ParseValue(text, SkipWhitespace(text, 1))
  IN  IF v.ok /\ SkipWhitespace(text, v.pos) = Len(text) + 1
      THEN [raised |-> FALSE, value |-> v.value]
      ELSE [raised |-> TRUE, type |-> "JSONDecodeError"]

\* models.py lines 13-23: the names of the fields of LawmateAnswer, and lines 8-11
\* those of SourceItem
FieldName ==
  [traffic_light |-> <<116, 114, 97, 102, 102, 105, 99, 95, 108, 105, 103, 104, 116>>,
   risk_score |-> <<114, 105, 115, 107, 95, 115, 99, 111, 114, 101>>,
   summary |-> <<115, 117, 109, 109, 97, 114, 121>>,
   what_to_do_now |-> <<119, 104, 97, 116, 95, 116, 111, 95, 100, 111, 95, 110, 111, 119>>,
   what_to_prepare |-> <<119, 104, 97, 116, 95, 116, 111, 95, 112, 114, 101, 112, 97, 114, 101>>,
   relevant_laws |-> <<114, 101, 108, 101, 118, 97, 110, 116, 95, 108, 97, 119, 115>>,
   important_deadlines |-> <<105, 109, 112, 111, 114, 116, 97, 110, 116, 95, 100, 101, 97, 100, 108, 105,
        110, 101, 115>>,
   when_to_contact_lawyer |-> <<119, 104, 101, 110, 95, 116, 111, 95, 99, 111, 110, 116, 97, 99, 116, 95, 108,
        97, 119, 121, 101, 114>>,
   notes |-> <<110, 111, 116, 101, 115>>,
   sources |-> <<115, 111, 117, 114, 99, 101, 115>>,
   title |-> <<116, 105, 116, 108, 101>>,
   url |-> <<117, 114, 108>>,
   why_relevant |-> <<119, 104, 121, 95, 114, 101, 108, 101, 118, 97, 110, 116>>]

\* models.py line 6: the three values of TrafficLight as they are written
LightText ==
  [green |-> <<103, 114, 101, 101, 110>>, yellow |-> <<121, 101, 108, 108, 111, 119>>, red |-> <<114, 101, 100>>]

\* providers.py lines 29-56: data of MockProvider.generate
MockData ==
  JDict(<< FieldName.traffic_light,
           FieldName.risk_score,
           FieldName.summary,
           FieldName.what_to_do_now,
           FieldName.what_to_prepare,
           FieldName.relevant_laws,
           FieldName.important_deadlines,
           FieldName.when_to_contact_lawyer,
           FieldName.notes,
           FieldName.sources >>,
        << JStr(<<121, 101, 108, 108, 111, 119>>),
           JInt(45),
           JStr(<<90, 32, 116, 111, 104, 111, 44, 32, 99, 111, 32, 112, 237, 353, 101,
                  353, 44, 32, 116, 111, 32, 118, 121, 112, 97, 100, 225, 32, 110, 97,
                  32, 98, 283, 382, 110, 253, 32, 112, 114, 225, 118, 110, 237, 32,
                  112, 114, 111, 98, 108, 233, 109, 44, 32, 107, 116, 101, 114, 253,
                  32, 106, 100, 101, 32, 269, 97, 115, 116, 111, 32, 118, 121, 345,
                  101, 353, 105, 116, 32, 100, 111, 109, 108, 117, 118, 111, 117, 32,
                  110, 101, 98, 111, 32, 115, 112, 114, 225, 118, 110, 253, 109, 32,
                  112, 111, 115, 116, 117, 112, 101, 109, 46, 32, 85, 32, 100, 101,
                  116, 97, 105, 108, 367, 32, 97, 108, 101, 32, 122, 225, 108, 101,
                  382, 237, 32, 110, 97, 32, 100, 111, 107, 117, 109, 101, 110, 116,
                  101, 99, 104, 32, 97, 32, 116, 101, 114, 109, 237, 110, 101, 99, 104,
                  46>>),
           JList(<< JStr(<<83, 101, 112, 105, 353, 32, 115, 105, 32, 269, 97, 115, 111,
                           118, 111, 117, 32, 111, 115, 117, 32, 40, 107, 100, 121, 32,
                           115, 101, 32, 99, 111, 32, 115, 116, 97, 108, 111, 41, 46>>),
                    JStr(<<83, 99, 104, 111, 118, 101, 106, 32, 100, 367, 107, 97, 122,
                           121, 32, 40, 115, 109, 108, 111, 117, 118, 121, 44, 32, 115,
                           99, 114, 101, 101, 110, 115, 104, 111, 116, 121, 44, 32,
                           102, 111, 116, 107, 121, 41, 46>>),
                    JStr(<<75, 111, 109, 117, 110, 105, 107, 117, 106, 32, 112, 111,
                           107, 117, 100, 32, 109, 111, 382, 110, 111, 32, 112, 237,
                           115, 101, 109, 110, 283, 46>>) >>),
           JList(<< JStr(<<75, 111, 112, 105, 101, 32, 115, 109, 108, 117, 118, 32, 47,
                           32, 111, 98, 106, 101, 100, 110, 225, 118, 101, 107, 32, 47,
                           32, 102, 97, 107, 116, 117, 114, 46>>),
                    JStr(<<68, 111, 107, 108, 97, 100, 32, 111, 32, 112, 108, 97, 116,
                           98, 283, 32, 40, 118, 253, 112, 105, 115, 44, 32, 112, 111,
                           116, 118, 114, 122, 101, 110, 237, 41, 46>>),
                    JStr(<<75, 111, 110, 116, 97, 107, 116, 121, 32, 110, 97, 32, 115,
                           118, 283, 100, 107, 121, 44, 32, 112, 111, 107, 117, 100,
                           32, 101, 120, 105, 115, 116, 117, 106, 237, 46>>) >>),
           JList(<< JStr(<<79, 98, 269, 97, 110, 115, 107, 253, 32, 122, 225, 107, 111,
                           110, 237, 107, 32, 40, 122, 225, 107, 111, 110, 32, 269, 46,
                           32, 56, 57, 47, 50, 48, 49, 50, 32, 83, 98, 46, 41, 32,
                           8211, 32, 111, 98, 101, 99, 110, 283, 32, 122, 225, 118, 97,
                           122, 107, 121, 32, 97, 32, 115, 109, 108, 111, 117, 118, 121>>) >>),
           JList(<< JStr(<<78, 101, 106, 115, 101, 109, 32, 115, 105, 32, 106, 105,
                           115, 116, 253, 32, 98, 101, 122, 32, 100, 101, 116, 97, 105,
                           108, 367, 32, 40, 122, 225, 108, 101, 382, 237, 32, 110, 97,
                           32, 116, 121, 112, 117, 32, 118, 283, 99, 105, 41, 46>>) >>),
           JList(<< JStr(<<75, 100, 121, 382, 32, 104, 114, 111, 122, 237, 32, 115,
                           111, 117, 100, 32, 47, 32, 101, 120, 101, 107, 117, 99, 101,
                           32, 110, 101, 98, 111, 32, 118, 121, 115, 111, 107, 225, 32,
                           269, 225, 115, 116, 107, 97, 46>>),
                    JStr(<<75, 100, 121, 382, 32, 112, 114, 111, 116, 105, 115, 116,
                           114, 97, 110, 97, 32, 105, 103, 110, 111, 114, 117, 106,
                           101, 32, 118, 253, 122, 118, 121, 32, 110, 101, 98, 111, 32,
                           118, 121, 104, 114, 111, 382, 117, 106, 101, 46>>) >>),
           JList(<< JStr(<<78, 101, 98, 101, 114, 32, 116, 111, 32, 106, 97, 107, 111,
                           32, 112, 114, 225, 118, 110, 237, 32, 115, 116, 97, 110,
                           111, 118, 105, 115, 107, 111, 32, 8211, 32, 106, 101, 32,
                           116, 111, 32, 111, 114, 105, 101, 110, 116, 97, 269, 110,
                           237, 32, 112, 111, 109, 111, 99, 46>>),
                    JStr(<<85, 32, 108, 104, 367, 116, 32, 116, 111, 32, 114, 97, 100,
                           283, 106, 105, 32, 110, 101, 111, 100, 107, 108, 225, 100,
                           101, 106, 46>>) >>),
           JList(<<>>) >>)

\* d[key] of a dict read from JSON: of the values given for a key the last one counts
HasKey(d, key) == \E k \in 1..Len(d.keys) : d.keys[k] = key
Get(d, key) ==
  d.vals[CHOOSE k \in 1..Len(d.keys) :
           d.keys[k] = key /\ \A j \in (k + 1)..Len(d.keys) : d.keys[j] # key]

IsStr(v) == v.t = "str"
IsStrList(v) == v.t = "list" /\ \A i \in 1..Len(v.items) : IsStr(v.items[i])

\* models.py lines 8-11: a value that validates as SourceItem
IsSourceItem(v) ==
  /\ v.t = "dict"
  /\ \A f \in {FieldName.title, FieldName.url, FieldName.why_relevant} :
       HasKey(v, f) /\ IsStr(Get(v, f))

\* models.py line 15: what pydantic makes of a str given for an int field, step by
\* step. The text without the whitespace around it
Trim(s) ==
  LET inked == {i \in 1..Len(s) : s[i] \notin (9..13) \cup {32, 133, 160}}
  IN  IF inked = {} THEN <<>>
      ELSE SubSeq(s, CHOOSE i \in inked : \A j \in inked : i <= j,
                     CHOOSE i \in inked : \A j \in inked : j <= i)

\* the place after the leading zeros and underscores of r, which starts with "0"
AfterZeros(r) ==
  LET others == {i \in 2..Len(r) : r[i] \notin {48, 95}}
  IN  IF others = {} THEN Len(r) + 1 ELSE CHOOSE i \in others : \A j \in others : i <= j

\* r from its first digit that is not a leading zero, or from a "-", or from the zero
\* before a "."; <<>> when r does not start with a digit or something else follows
\* the leading zeros
strip_leading_zeros(r) ==
  LET stop == AfterZeros(r)
  IN  IF ~IsDigit(At(r, 1)) THEN <<>>
      ELSE IF r[1] # 48 THEN r
      ELSE IF stop > Len(r) THEN <<r[Len(r)]>>
      ELSE IF r[stop] = 46 THEN SubSeq(r, stop - 1, Len(r))
      ELSE IF r[stop] \in (49..57) \cup {45} THEN SubSeq(r, stop, Len(r))
      ELSE <<>>

\* z without a "." that is followed by zeros and nothing else
strip_decimal_zeros(z) ==
  LET dot == find(z, 46)
  IN  IF dot # 0 /\ dot < Len(z) /\ \A k \in (dot + 1)..Len(z) : z[k] = 48
      THEN SubSeq(z, 1, dot - 1) ELSE z

\* d without its underscores, when they are single and inside
strip_underscores(d) ==
  IF /\ \E k \in 1..Len(d) : d[k] = 95
     /\ d[1] # 95 /\ d[Len(d)] # 95
     /\ \A k \in 1..(Len(d) - 1) : ~(d[k] = 95 /\ d[k + 1] = 95)
  THEN SelectSeq(d, LAMBDA c : c # 95) ELSE d

\* u under the sign read as -?(0|[1-9][0-9]*)
parse_int(neg, u) ==
  LET minus  == At(u, 1) = 45
      digits == IF minus THEN Tail(u) ELSE u
  IN  IF digits = <<>> \/ ~AllDigits(digits, 1, Len(digits)) THEN [ok |-> FALSE, n |-> 0]
      ELSE IF digits[1] = 48 /\ Len(digits) > 1 THEN [ok |-> FALSE, n |-> 0]
      ELSE IF neg /\ minus THEN [ok |-> FALSE, n |-> 0]
      ELSE [ok |-> TRUE,
            n  |-> IF neg \/ minus THEN 0 - DecimalValue(digits)
                   ELSE DecimalValue(digits)]

\* the text trimmed, its sign taken off, cleaned and read
str_as_int(s) ==
  LET t == Trim(s)
  IN  parse_int(At(t, 1) = 45,
                strip_underscores(strip_decimal_zeros(strip_leading_zeros(
                  IF At(t, 1) \in {43, 45} THEN Tail(t) ELSE t))))

\* models.py line 15: risk_score is an int: a JSON int, or what pydantic converts to
\* one (a bool, a str that reads as an int); a value of another type is refused
AsInt(v) ==
  IF v.t = "int" THEN [ok |-> TRUE, n |-> v.n]
  ELSE IF v.t = "bool" THEN [ok |-> TRUE, n |-> IF v.b THEN 1 ELSE 0]
  ELSE IF v.t = "str" THEN str_as_int(v.s)
  ELSE [ok |-> FALSE, n |-> 0]

\* models.py lines 13-23: LawmateAnswer.model_validate(parsed): the answer with every
\* field, or pydantic.ValidationError
model_validate(parsed) ==
  LET F == FieldName
      has(f) == HasKey(parsed, f)
      texts(v) == [i \in 1..Len(v.items) |-> v.items[i].s]
      valid ==
        /\ parsed.t = "dict"
        /\ has(F.traffic_light) /\ IsStr(Get(parsed, F.traffic_light))
        /\ \E l \in TrafficLight : Get(parsed, F.traffic_light).s = LightText[l]
        /\ has(F.risk_score) /\ AsInt(Get(parsed, F.risk_score)).ok
        /\ AsInt(Get(parsed, F.risk_score)).n \in 0..MaxRiskScore
        /\ has(F.summary) /\ IsStr(Get(parsed, F.summary))
        /\ \A f \in {F.what_to_do_now, F.what_to_prepare, F.relevant_laws,
                     F.important_deadlines, F.when_to_contact_lawyer, F.notes} :
             has(f) /\ IsStrList(Get(parsed, f))
        /\ has(F.sources) =>
             /\ Get(parsed, F.sources).t = "list"
             /\ \A i \in 1..Len(Get(parsed, F.sources).items) :
                  IsSourceItem(Get(parsed, F.sources).items[i])
  IN  IF ~valid THEN [raised |-> TRUE, type |-> "ValidationError"]
      ELSE
        [raised |-> FALSE,
         ans |->
           [traffic_light |-> CHOOSE l \in TrafficLight :
                                Get(parsed, F.traffic_light).s = LightText[l],
            risk_score |-> AsInt(Get(parsed, F.risk_score)).n,
            summary |-> Get(parsed, F.summary).s,
            what_to_do_now |-> texts(Get(parsed, F.what_to_do_now)),
            what_to_prepare |-> texts(Get(parsed, F.what_to_prepare)),
            relevant_laws |-> texts(Get(parsed, F.relevant_laws)),
            important_deadlines |-> texts(Get(parsed, F.important_deadlines)),
            when_to_contact_lawyer |-> texts(Get(parsed, F.when_to_contact_lawyer)),
            notes |-> texts(Get(parsed, F.notes)),
            sources |->
              IF ~has(F.sources) THEN <<>>
              ELSE LET items == Get(parsed, F.sources).items
                   IN  [i \in 1..Len(items) |->
                          [title |-> Get(items[i], F.title).s,
                           url |-> Get(items[i], F.url).s,
                           why_relevant |-> Get(items[i], F.why_relevant).s]]]]

\* providers.py lines 27-57
MockProvider_generate == model_validate(MockData)

\* obj[key] for a str key and obj[0], on a value read from JSON
Subscript(obj, key) ==
  IF obj.t = "dict"
  THEN (IF HasKey(obj, key) THEN [raised |-> FALSE, value |-> Get(obj, key)]
        ELSE [raised |-> TRUE, type |-> "KeyError"])
  ELSE [raised |-> TRUE, type |-> "TypeError"]
First(obj) ==
  IF obj.t = "list"
  THEN (IF Len(obj.items) > 0 THEN [raised |-> FALSE, value |-> obj.items[1]]
        ELSE [raised |-> TRUE, type |-> "IndexError"])
  ELSE IF obj.t = "str"
  THEN (IF Len(obj.s) > 0 THEN [raised |-> FALSE, value |-> JStr(<<obj.s[1]>>)]
        ELSE [raised |-> TRUE, type |-> "IndexError"])
  ELSE IF obj.t = "dict" THEN [raised |-> TRUE, type |-> "KeyError"]
  ELSE [raised |-> TRUE, type |-> "TypeError"]

\* obj.get(key, default)
DictGet(obj, key, default) ==
  IF obj.t # "dict" THEN [raised |-> TRUE, type |-> "AttributeError"]
  ELSE [raised |-> FALSE, value |-> IF HasKey(obj, key) THEN Get(obj, key) ELSE default]

\* the keys of the replies: "choices", "message", "content"
KeyChoices == <<99, 104, 111, 105, 99, 101, 115>>
KeyMessage == <<109, 101, 115, 115, 97, 103, 101>>
KeyContent == <<99, 111, 110, 116, 101, 110, 116>>

\* providers.py lines 83 and 111: resp.text[:500]
BodySnippetLen == 500

\* providers.py line 117: "Ollama nevratil JSON. Zkus jiny model." with its diacritics
OllamaNoJson ==
  <<79, 108, 108, 97, 109, 97, 32, 110, 101, 118, 114, 225, 116, 105, 108, 32, 74,
    83, 79, 78, 46, 32, 90, 107, 117, 115, 32, 106, 105, 110, 253, 32, 109, 111, 100,
    101, 108, 46>>

\* providers.py lines 81-87: OpenAIProvider.generate from requests.post on; http is
\* what requests.post does: it raises, or it returns a response with status_code,
\* text and what resp.json() gives
OpenAIProvider_generate(http) ==
  IF http.raises THEN [raised |-> TRUE, type |-> http.type]
  ELSE IF http.status_code # 200
  THEN [raised |-> TRUE, type |-> "LLMError",
        message |-> <<"OpenAI API error", http.status_code,
                      PySlice(http.text, BodySnippetLen)>>]
  ELSE IF http.json.raised THEN [raised |-> TRUE, type |-> http.json.type]
  ELSE
    LET data    == http.json.value
        choices == Subscript(data, KeyChoices)
        choice  == First(choices.value)
        message == Subscript(choice.value, KeyMessage)
        content == Subscript(message.value, KeyContent)
        parsed  == json_loads(content.value.s)
    IN  IF choices.raised THEN choices
        ELSE IF choice.raised THEN choice
        ELSE IF message.raised THEN message
        ELSE IF content.raised THEN content
        ELSE IF ~IsStr(content.value) THEN [raised |-> TRUE, type |-> "TypeError"]
        ELSE IF parsed.raised THEN parsed
        ELSE model_validate(parsed.value)

\* providers.py lines 109-119: OllamaProvider.generate from requests.post on
OllamaProvider_generate(http) ==
  IF http.raises THEN [raised |-> TRUE, type |-> http.type]
  ELSE IF http.status_code # 200
  THEN [raised |-> TRUE, type |-> "LLMError",
        message |-> <<"Ollama error", http.status_code,
                      PySlice(http.text, BodySnippetLen)>>]
  ELSE IF http.json.raised THEN [raised |-> TRUE, type |-> http.json.type]
  ELSE
    LET data    == http.json.value
        message == DictGet(data, KeyMessage, JDict(<<>>, <<>>))
        content == DictGet(message.value, KeyContent, JStr(<<>>))
        start   == find(content.value.s, 123)
        end     == rfind(content.value.s, 125)
        parsed  == json_loads(SubSeq(content.value.s, start, end))
    IN  IF message.raised THEN message
        ELSE IF content.raised THEN content
        ELSE IF ~IsStr(content.value) THEN [raised |-> TRUE, type |-> "AttributeError"]
        ELSE IF start = 0 \/ end = 0 \/ end <= start
        THEN [raised |-> TRUE, type |-> "LLMError",
              message |-> <<OllamaNoJson>>]
        ELSE IF parsed.raised THEN parsed
        ELSE model_validate(parsed.value)

\* providers.py line 62: "OPENAI_API_KEY chybi v .env" with its diacritics
OpenAIKeyMissing ==
  <<79, 80, 69, 78, 65, 73, 95, 65, 80, 73, 95, 75, 69, 89, 32, 99, 104, 121, 98,
      237, 32, 118, 32, 46, 101, 110, 118>>

\* providers.py lines 121-126 (with OpenAIProvider.__init__, lines 60-64): the provider
\* of the configuration, or the LLMError raised when OpenAI is chosen without a key
make_provider(c) ==
  IF c.llm_provider = "openai"
  THEN (IF c.openai_api_key = ""
        THEN [raised |-> TRUE, type |-> "LLMError", message |-> <<OpenAIKeyMissing>>]
        ELSE [raised |-> FALSE, provider |-> "openai"])
  ELSE IF c.llm_provider = "ollama" THEN [raised |-> FALSE, provider |-> "ollama"]
  ELSE [raised |-> FALSE, provider |-> "mock"]

\* main_window.py lines 72-76: make_provider(cfg).generate(...); no request is sent
\* when make_provider raises
generate(c, http) ==
  LET made == make_provider(c)
  IN  IF made.raised THEN made
      ELSE IF made.provider = "openai" THEN OpenAIProvider_generate(http)
      ELSE IF made.provider = "ollama" THEN OllamaProvider_generate(http)
      ELSE MockProvider_generate

\* the prose "Odpoved:"
ProseText ==
  <<79, 100, 112, 111, 118, 101, 100, 58>>


\* a valid answer, green with score 20 and no sources
GreenAnswerText ==
  <<123, 34, 116, 114, 97, 102, 102, 105, 99, 95, 108, 105, 103, 104, 116, 34, 58, 32,
    34, 103, 114, 101, 101, 110, 34, 44, 32, 34, 114, 105, 115, 107, 95, 115, 99, 111,
    114, 101, 34, 58, 32, 50, 48, 44, 32, 34, 115, 117, 109, 109, 97, 114, 121, 34, 58,
    32, 34, 111, 107, 34, 44, 32, 34, 119, 104, 97, 116, 95, 116, 111, 95, 100, 111,
    95, 110, 111, 119, 34, 58, 32, 91, 34, 97, 34, 93, 44, 32, 34, 119, 104, 97, 116,
    95, 116, 111, 95, 112, 114, 101, 112, 97, 114, 101, 34, 58, 32, 91, 93, 44, 32, 34,
    114, 101, 108, 101, 118, 97, 110, 116, 95, 108, 97, 119, 115, 34, 58, 32, 91, 93,
    44, 32, 34, 105, 109, 112, 111, 114, 116, 97, 110, 116, 95, 100, 101, 97, 100, 108,
    105, 110, 101, 115, 34, 58, 32, 91, 93, 44, 32, 34, 119, 104, 101, 110, 95, 116,
    111, 95, 99, 111, 110, 116, 97, 99, 116, 95, 108, 97, 119, 121, 101, 114, 34, 58,
    32, 91, 93, 44, 32, 34, 110, 111, 116, 101, 115, 34, 58, 32, 91, 93, 125>>


\* a valid answer, red with score 90 and one source
RedAnswerText ==
  <<123, 34, 116, 114, 97, 102, 102, 105, 99, 95, 108, 105, 103, 104, 116, 34, 58, 32,
    34, 114, 101, 100, 34, 44, 32, 34, 114, 105, 115, 107, 95, 115, 99, 111, 114, 101,
    34, 58, 32, 57, 48, 44, 32, 34, 115, 117, 109, 109, 97, 114, 121, 34, 58, 32, 34,
    111, 107, 34, 44, 32, 34, 119, 104, 97, 116, 95, 116, 111, 95, 100, 111, 95, 110,
    111, 119, 34, 58, 32, 91, 34, 97, 34, 93, 44, 32, 34, 119, 104, 97, 116, 95, 116,
    111, 95, 112, 114, 101, 112, 97, 114, 101, 34, 58, 32, 91, 93, 44, 32, 34, 114,
    101, 108, 101, 118, 97, 110, 116, 95, 108, 97, 119, 115, 34, 58, 32, 91, 93, 44,
    32, 34, 105, 109, 112, 111, 114, 116, 97, 110, 116, 95, 100, 101, 97, 100, 108,
    105, 110, 101, 115, 34, 58, 32, 91, 93, 44, 32, 34, 119, 104, 101, 110, 95, 116,
    111, 95, 99, 111, 110, 116, 97, 99, 116, 95, 108, 97, 119, 121, 101, 114, 34, 58,
    32, 91, 93, 44, 32, 34, 110, 111, 116, 101, 115, 34, 58, 32, 91, 93, 44, 32, 34,
    115, 111, 117, 114, 99, 101, 115, 34, 58, 32, 91, 123, 34, 116, 105, 116, 108, 101,
    34, 58, 32, 34, 78, 83, 34, 44, 32, 34, 117, 114, 108, 34, 58, 32, 34, 117, 34, 44,
    32, 34, 119, 104, 121, 95, 114, 101, 108, 101, 118, 97, 110, 116, 34, 58, 32, 34,
    100, 108, 117, 104, 34, 125, 93, 125>>


\* an answer with traffic_light "blue"
BlueAnswerText ==
  <<123, 34, 116, 114, 97, 102, 102, 105, 99, 95, 108, 105, 103, 104, 116, 34, 58, 32,
    34, 98, 108, 117, 101, 34, 44, 32, 34, 114, 105, 115, 107, 95, 115, 99, 111, 114,
    101, 34, 58, 32, 50, 48, 44, 32, 34, 115, 117, 109, 109, 97, 114, 121, 34, 58, 32,
    34, 111, 107, 34, 44, 32, 34, 119, 104, 97, 116, 95, 116, 111, 95, 100, 111, 95,
    110, 111, 119, 34, 58, 32, 91, 34, 97, 34, 93, 44, 32, 34, 119, 104, 97, 116, 95,
    116, 111, 95, 112, 114, 101, 112, 97, 114, 101, 34, 58, 32, 91, 93, 44, 32, 34,
    114, 101, 108, 101, 118, 97, 110, 116, 95, 108, 97, 119, 115, 34, 58, 32, 91, 93,
    44, 32, 34, 105, 109, 112, 111, 114, 116, 97, 110, 116, 95, 100, 101, 97, 100, 108,
    105, 110, 101, 115, 34, 58, 32, 91, 93, 44, 32, 34, 119, 104, 101, 110, 95, 116,
    111, 95, 99, 111, 110, 116, 97, 99, 116, 95, 108, 97, 119, 121, 101, 114, 34, 58,
    32, 91, 93, 44, 32, 34, 110, 111, 116, 101, 115, 34, 58, 32, 91, 93, 125>>


\* an answer with risk_score 101
Score101AnswerText ==
  <<123, 34, 116, 114, 97, 102, 102, 105, 99, 95, 108, 105, 103, 104, 116, 34, 58, 32,
    34, 103, 114, 101, 101, 110, 34, 44, 32, 34, 114, 105, 115, 107, 95, 115, 99, 111,
    114, 101, 34, 58, 32, 49, 48, 49, 44, 32, 34, 115, 117, 109, 109, 97, 114, 121, 34,
    58, 32, 34, 111, 107, 34, 44, 32, 34, 119, 104, 97, 116, 95, 116, 111, 95, 100,
    111, 95, 110, 111, 119, 34, 58, 32, 91, 34, 97, 34, 93, 44, 32, 34, 119, 104, 97,
    116, 95, 116, 111, 95, 112, 114, 101, 112, 97, 114, 101, 34, 58, 32, 91, 93, 44,
    32, 34, 114, 101, 108, 101, 118, 97, 110, 116, 95, 108, 97, 119, 115, 34, 58, 32,
    91, 93, 44, 32, 34, 105, 109, 112, 111, 114, 116, 97, 110, 116, 95, 100, 101, 97,
    100, 108, 105, 110, 101, 115, 34, 58, 32, 91, 93, 44, 32, 34, 119, 104, 101, 110,
    95, 116, 111, 95, 99, 111, 110, 116, 97, 99, 116, 95, 108, 97, 119, 121, 101, 114,
    34, 58, 32, 91, 93, 44, 32, 34, 110, 111, 116, 101, 115, 34, 58, 32, 91, 93, 125>>


\* an answer without notes
NoNotesAnswerText ==
  <<123, 34, 116, 114, 97, 102, 102, 105, 99, 95, 108, 105, 103, 104, 116, 34, 58, 32,
    34, 103, 114, 101, 101, 110, 34, 44, 32, 34, 114, 105, 115, 107, 95, 115, 99, 111,
    114, 101, 34, 58, 32, 50, 48, 44, 32, 34, 115, 117, 109, 109, 97, 114, 121, 34, 58,
    32, 34, 111, 107, 34, 44, 32, 34, 119, 104, 97, 116, 95, 116, 111, 95, 100, 111,
    95, 110, 111, 119, 34, 58, 32, 91, 34, 97, 34, 93, 44, 32, 34, 119, 104, 97, 116,
    95, 116, 111, 95, 112, 114, 101, 112, 97, 114, 101, 34, 58, 32, 91, 93, 44, 32, 34,
    114, 101, 108, 101, 118, 97, 110, 116, 95, 108, 97, 119, 115, 34, 58, 32, 91, 93,
    44, 32, 34, 105, 109, 112, 111, 114, 116, 97, 110, 116, 95, 100, 101, 97, 100, 108,
    105, 110, 101, 115, 34, 58, 32, 91, 93, 44, 32, 34, 119, 104, 101, 110, 95, 116,
    111, 95, 99, 111, 110, 116, 97, 99, 116, 95, 108, 97, 119, 121, 101, 114, 34, 58,
    32, 91, 93, 125>>


\* an answer cut off after its summary
CutAnswerText ==
  <<123, 34, 116, 114, 97, 102, 102, 105, 99, 95, 108, 105, 103, 104, 116, 34, 58, 32,
    34, 103, 114, 101, 101, 110, 34, 44, 32, 34, 114, 105, 115, 107, 95, 115, 99, 111,
    114, 101, 34, 58, 32, 50, 48, 44, 32, 34, 115, 117, 109, 109, 97, 114, 121, 34, 58,
    32, 34, 111, 107, 34, 44, 32>>


\* "{"
OpenBraceText ==
  <<123>>


\* "}"
CloseBraceText ==
  <<125>>


\* an answer, yellow, whose risk_score is the text "+45"
TextScoreAnswerText ==
  <<123, 34, 116, 114, 97, 102, 102, 105, 99, 95, 108, 105, 103, 104, 116, 34, 58, 32,
    34, 121, 101, 108, 108, 111, 119, 34, 44, 32, 34, 114, 105, 115, 107, 95, 115, 99,
    111, 114, 101, 34, 58, 32, 34, 43, 52, 53, 34, 44, 32, 34, 115, 117, 109, 109, 97,
    114, 121, 34, 58, 32, 34, 111, 107, 34, 44, 32, 34, 119, 104, 97, 116, 95, 116,
    111, 95, 100, 111, 95, 110, 111, 119, 34, 58, 32, 91, 34, 97, 34, 93, 44, 32, 34,
    119, 104, 97, 116, 95, 116, 111, 95, 112, 114, 101, 112, 97, 114, 101, 34, 58, 32,
    91, 93, 44, 32, 34, 114, 101, 108, 101, 118, 97, 110, 116, 95, 108, 97, 119, 115,
    34, 58, 32, 91, 93, 44, 32, 34, 105, 109, 112, 111, 114, 116, 97, 110, 116, 95,
    100, 101, 97, 100, 108, 105, 110, 101, 115, 34, 58, 32, 91, 93, 44, 32, 34, 119,
    104, 101, 110, 95, 116, 111, 95, 99, 111, 110, 116, 97, 99, 116, 95, 108, 97, 119,
    121, 101, 114, 34, 58, 32, 91, 93, 44, 32, 34, 110, 111, 116, 101, 115, 34, 58, 32,
    91, 93, 125>>


\* an answer whose risk_score is the text "45."
DotScoreAnswerText ==
  <<123, 34, 116, 114, 97, 102, 102, 105, 99, 95, 108, 105, 103, 104, 116, 34, 58, 32,
    34, 121, 101, 108, 108, 111, 119, 34, 44, 32, 34, 114, 105, 115, 107, 95, 115, 99,
    111, 114, 101, 34, 58, 32, 34, 52, 53, 46, 34, 44, 32, 34, 115, 117, 109, 109, 97,
    114, 121, 34, 58, 32, 34, 111, 107, 34, 44, 32, 34, 119, 104, 97, 116, 95, 116,
    111, 95, 100, 111, 95, 110, 111, 119, 34, 58, 32, 91, 34, 97, 34, 93, 44, 32, 34,
    119, 104, 97, 116, 95, 116, 111, 95, 112, 114, 101, 112, 97, 114, 101, 34, 58, 32,
    91, 93, 44, 32, 34, 114, 101, 108, 101, 118, 97, 110, 116, 95, 108, 97, 119, 115,
    34, 58, 32, 91, 93, 44, 32, 34, 105, 109, 112, 111, 114, 116, 97, 110, 116, 95,
    100, 101, 97, 100, 108, 105, 110, 101, 115, 34, 58, 32, 91, 93, 44, 32, 34, 119,
    104, 101, 110, 95, 116, 111, 95, 99, 111, 110, 116, 97, 99, 116, 95, 108, 97, 119,
    121, 101, 114, 34, 58, 32, 91, 93, 44, 32, 34, 110, 111, 116, 101, 115, 34, 58, 32,
    91, 93, 125>>

\* ---- generate() of each provider on what the backend may send ----

ContentFragments ==
  {ProseText, GreenAnswerText, RedAnswerText, BlueAnswerText, Score101AnswerText,
   NoNotesAnswerText, CutAnswerText, OpenBraceText, CloseBraceText,
   TextScoreAnswerText, DotScoreAnswerText}

\* the text of the model's reply: up to MaxFragments fragments, a space between them
Contents == TextsOf(ContentFragments, MaxFragments)

\* the decoded body of a reply of api.openai.com/v1/chat/completions and of Ollama's
\* /api/chat with a given content
OpenAIReply(content) ==
  JDict(<<KeyChoices>>,
        <<JList(<<JDict(<<KeyMessage>>, <<JDict(<<KeyContent>>, <<content>>)>>)>>)>>)
OllamaReply(content) ==
  JDict(<<KeyMessage>>, <<JDict(<<KeyContent>>, <<content>>)>>)

\* decoded bodies: replies with each content, replies whose content is null, an
\* empty object, an object with no choice, and a list
Replies ==
  {OpenAIReply(JStr(c)) : c \in Contents} \cup {OllamaReply(JStr(c)) : c \in Contents}
    \cup {OpenAIReply(JNull), OllamaReply(JNull), JDict(<<>>, <<>>),
          JDict(<<KeyChoices>>, <<JList(<<>>)>>), JList(<<>>)}

\* a body longer than the snippet kept of it
LongBody == [i \in 1..(BodySnippetLen + 1) |-> 120]

\* what requests.post does: it raises (no connection, no answer in time); it returns
\* an error status with a body ("bad key", or a long one); it returns 200 with a
\* body that is not JSON ("<html>"); it returns 200 with a decoded body (the text of
\* the body is not read then)
HttpOutcomes ==
  {[raises |-> TRUE, type |-> t] : t \in {"ConnectionError", "ReadTimeout"}}
    \cup {[raises |-> FALSE, status_code |-> s, text |-> b,
           json |-> [raised |-> TRUE, type |-> "JSONDecodeError"]] :
            s \in {401, 500}, b \in {<<98, 97, 100, 32, 107, 101, 121>>, LongBody}}
    \cup {[raises |-> FALSE, status_code |-> 200, text |-> <<60, 104, 116, 109, 108, 62>>,
           json |-> [raised |-> TRUE, type |-> "JSONDecodeError"]]}
    \cup {[raises |-> FALSE, status_code |-> 200, text |-> <<>>,
           json |-> [raised |-> FALSE, value |-> r]] : r \in Replies}

\* MockProvider sends nothing
NoHttp == [raises |-> TRUE, type |-> "none"]

\* config.py lines 39-49: the provider and the key of a configuration: OpenAI with
\* and without OPENAI_API_KEY, Ollama, the mock
ProviderConfig(p, key) == [llm_provider |-> p, openai_api_key |-> key]
RemoteConfigs ==
  {ProviderConfig("openai", "sk-test"), ProviderConfig("openai", ""),
   ProviderConfig("ollama", "")}

InitGenerate ==
  /\ NoWindow
  /\ call \in {[fn |-> "generate", cfg |-> c, http |-> h] :
                 c \in RemoteConfigs, h \in HttpOutcomes}
              \cup {[fn |-> "generate", cfg |-> ProviderConfig("mock", ""),
                     http |-> NoHttp]}
  /\ ret = [done |-> FALSE]

\* providers.py lines 27-126
CallGenerate ==
  /\ call.fn = "generate"
  /\ ~ret.done
  /\ ret' = [done |-> TRUE, value |-> generate(call.cfg, call.http)]
  /\ UNCHANGED <<call, ui_vars>>

NextGenerate == CallGenerate

SpecGenerate == InitGenerate /\ [][NextGenerate]_vars

\* a text, and a list of texts
IsText(s) == DOMAIN s = 1..Len(s) /\ \A i \in 1..Len(s) : s[i] \in Nat
IsTextList(l) == DOMAIN l = 1..Len(l) /\ \A i \in 1..Len(l) : IsText(l[i])

\* a value with every field of LawmateAnswer, each of its type
IsLawmateAnswer(a) ==
  /\ DOMAIN a = {"traffic_light", "risk_score", "summary", "what_to_do_now",
                 "what_to_prepare", "relevant_laws", "important_deadlines",
                 "when_to_contact_lawyer", "notes", "sources"}
  /\ a.traffic_light \in {"green", "yellow", "red"}
  /\ a.risk_score \in 0..100
  /\ IsText(a.summary)
  /\ IsTextList(a.what_to_do_now) /\ IsTextList(a.what_to_prepare)
  /\ IsTextList(a.relevant_laws) /\ IsTextList(a.important_deadlines)
  /\ IsTextList(a.when_to_contact_lawyer) /\ IsTextList(a.notes)
  /\ DOMAIN a.sources = 1..Len(a.sources)
  /\ \A i \in 1..Len(a.sources) :
       /\ DOMAIN a.sources[i] = {"title", "url", "why_relevant"}
       /\ IsText(a.sources[i].title) /\ IsText(a.sources[i].url)
       /\ IsText(a.sources[i].why_relevant)

\* the call got status 200 from Ollama with a message whose content is a text
OllamaGotContent ==
  /\ call.cfg.llm_provider = "ollama"
  /\ ~call.http.raises
  /\ call.http.status_code = 200
  /\ ~call.http.json.raised
  /\ call.http.json.value.t = "dict"
  /\ HasKey(call.http.json.value, KeyMessage)
  /\ Get(call.http.json.value, KeyMessage).t = "dict"
  /\ HasKey(Get(call.http.json.value, KeyMessage), KeyContent)
  /\ Get(Get(call.http.json.value, KeyMessage), KeyContent).t = "str"
OllamaContent == Get(Get(call.http.json.value, KeyMessage), KeyContent).s

\* C19: generate of every provider returns an answer with every field of
\* LawmateAnswer, traffic_light one of green, yellow, red and risk_score in 0..100, or
\* it raises. For OllamaProvider with a 200 response, LLMError is raised when the
\* content has no "{", no "}", or its last "}" is not after its first "{"; otherwise
\* what is parsed is exactly the content from its first "{" to its last "}".
C19_ValidAnswerOrRaises ==
  (call.fn = "generate" /\ ret.done) =>
    /\ ret.value.raised \in BOOLEAN
    /\ ~ret.value.raised => IsLawmateAnswer(ret.value.ans)
    /\ OllamaGotContent =>
         LET c       == OllamaContent
             isFirst(i) == c[i] = 123 /\ \A j \in 1..(i - 1) : c[j] # 123
             isLast(i)  == c[i] = 125 /\ \A j \in (i + 1)..Len(c) : c[j] # 125
         IN  IF \E i \in 1..Len(c), k \in 1..Len(c) : isFirst(i) /\ isLast(k) /\ i < k
             THEN \E i \in 1..Len(c), k \in 1..Len(c) :
                    /\ isFirst(i) /\ isLast(k)
                    /\ LET parsed == json_loads(SubSeq(c, i, k))
                       IN  ret.value = IF parsed.raised THEN parsed
                                       ELSE model_validate(parsed.value)
             ELSE ret.value.raised /\ ret.value.type = "LLMError"

\* Ollama answered "Odpoved: " followed by the red answer, whose source is an object
\* inside the object: the answer was read from the first "{" to the last "}"
C19_Witness ==
  /\ call.fn = "generate"
  /\ OllamaGotContent
  /\ OllamaContent = ProseText \o <<32>> \o RedAnswerText
  /\ ret.done
  /\ ~ret.value.raised
  /\ ret.value.ans.traffic_light = "red"
  /\ ret.value.ans.risk_score = 90
  /\ Len(ret.value.ans.sources) = 1
  /\ ret.value.ans.sources[1].why_relevant = <<100, 108, 117, 104>>

\* C20: every failure of generate of OpenAIProvider and OllamaProvider is an LLMError:
\* when requests.post fails or the status is not 200 an LLMError is raised, which for
\* a status other than 200 carries the status and the first 500 characters of the
\* body; when the content does not parse as JSON or does not validate as
\* LawmateAnswer a provider error is raised that differs from the transport one; no
\* exception of another type leaves generate.
C20_FailuresAreProviderErrors ==
  (call.fn = "generate" /\ call.cfg.llm_provider \in {"openai", "ollama"} /\ ret.done
   /\ ret.value.raised) =>
    /\ ret.value.type = "LLMError"
    /\ (call.cfg.llm_provider = "ollama" \/ call.cfg.openai_api_key # "") =>
         /\ (~call.http.raises /\ call.http.status_code # 200) =>
              /\ Len(ret.value.message) = 3
              /\ ret.value.message[2] = call.http.status_code
              /\ ret.value.message[3] = PySlice(call.http.text, 500)
         /\ (~call.http.raises /\ call.http.status_code = 200) =>
              Len(ret.value.message) # 3

\* C23: after any sequence of create_session, add_message and delete_session calls,
\* on any session id, every stored message has the id of an existing session as its
\* session_id, and no session id is given twice, so that a new session never starts
\* with the messages of a deleted one.
C23_ReferentialIntegrity ==
  /\ \A k \in 1..Len(messages) :
       \E j \in 1..Len(sessions) : sessions[j].id = messages[k].session_id
  /\ \A j \in 1..Len(sessions) : sessions[j].id <= seq_sessions
  /\ \A i \in 1..Len(sessions) : \A j \in 1..Len(sessions) :
       i # j => sessions[i].id # sessions[j].id

--------------------------------------------------------------------------
(* The window: where the reply of a submission is stored.                   *)

\* how many of the first n messages of a list have a role
CountRole(rows, n, role) == Cardinality({k \in 1..n : rows[k].role = role})

\* C22: the reply to a submission is stored in the session in which on_send stored
\* the question, whatever new_chat, session clicks and delete_current_chat did
\* between on_send and on_done: in every session each assistant message comes after
\* the user message it answers, so that up to any message the session holds at least
\* as many user messages as assistant messages.
C22_ReplyInSessionOfQuestion ==
  \A s \in 1..MaxSessions :
    LET rows == get_messages(s)
    IN  \A n \in 1..Len(rows) :
          CountRole(rows, n, "assistant") <= CountRole(rows, n, "user")

--------------------------------------------------------------------------
(* One run of the Ollama setup thread in every environment.                 *)

InitSetup ==
  /\ NoWindow
  /\ call \in {[fn |-> "OllamaSetupWorker.run", env |-> env] : env \in SetupEnvs}
  /\ ret = [done |-> FALSE]

CallSetup ==
  /\ call.fn = "OllamaSetupWorker.run"
  /\ ~ret.done
  /\ ret' = [done |-> TRUE, value |-> OllamaSetupWorker_run(call.env)]
  /\ UNCHANGED <<call, ui_vars>>

NextSetup == CallSetup

SpecSetup == InitSetup /\ [][NextSetup]_vars

\* C21: every run of the Ollama setup thread ends with ensure_ollama_ready returning
\* a result, so that the thread emits finished_ok or finished_error (the two signals
\* whose handlers clear the setup flag and enable the send button again).
C21_SetupEmitsResult ==
  (call.fn = "OllamaSetupWorker.run" /\ ret.done)
    => /\ ~ret.value.raised
       /\ ret.value.emitted \in {"finished_ok", "finished_error"}

--------------------------------------------------------------------------
(* The window with the mock provider, where no Ollama setup runs: the chats, *)
(* the combo box, the questions sent and the replies stored.                *)

InitSend == Init /\ cfg.llm_provider = "mock"

NextSend ==
  \/ new_chat
  \/ delete_current_chat
  \/ \E reply \in {"Yes", "No"} : delete_current_chat_answered(reply)
  \/ \E sid \in 1..MaxSessions : on_session_clicked(sid)
  \/ \E c \in {CATEGORIES[k] : k \in 1..Len(CATEGORIES)} : select_category(c)
  \/ \E text \in InputTexts : on_send(text)
  \/ \E k \in 1..MaxWorkers : WorkerRun(k)
  \/ \E k \in 1..MaxWorkers : on_done(k)

SpecSend == InitSend /\ [][NextSend]_vars

RealDomains == {TrestniPravo, ObcanskePravo, PravniRad}

\* the rows of messages' that the step has inserted
Inserted == {k \in 1..Len(messages') :
               \A j \in 1..Len(messages) : messages[j].id # messages'[k].id}

\* C24: whenever on_send starts a Worker, the Worker's category is one of the three
\* real domains: infer_category of the question when the combo box shows Auto, the
\* combo box's text otherwise; and in that same step the question has been stored as a
\* user message whose id is the largest given so far, while every message stored by a
\* later step (the assistant's reply among them) gets an id above all ids given
\* before, so the question's id is below its reply's.
C24_WorkerCategoryAndOrder ==
  [][ /\ Len(workers') = Len(workers) + 1 =>
           LET w == workers'[Len(workers')]
               m == messages'[Len(messages')]
           IN  /\ w.status = "running"
               /\ w.category \in RealDomains
               /\ w.category = IF category_cb = AUTO_CATEGORY
                               THEN infer_category(w.question)
                               ELSE category_cb
               /\ Inserted = {Len(messages')}
               /\ m.role = "user"
               /\ m.content = QuestionHtml(w.question)
               /\ m.session_id = current_session_id
               /\ m.id = seq_messages'
      /\ \A k \in Inserted : /\ messages'[k].id > seq_messages
                             /\ messages'[k].id <= seq_messages'
      /\ seq_messages' >= seq_messages
      /\ \A k \in 1..Len(workers') : workers'[k].category \in RealDomains
    ]_vars

\* Auto was selected when the question was sent, the Worker got the inferred domain,
\* and the reply is stored after the question
C24_Witness ==
  /\ \E j \in 1..Len(messages) : \E k \in 1..Len(messages) :
       /\ messages[j].role = "user"
       /\ messages[k].role = "assistant"
       /\ messages[j].session_id = messages[k].session_id
       /\ messages[j].id < messages[k].id
  /\ \E k \in 1..Len(workers) :
       /\ workers[k].category = infer_category(workers[k].question)
       /\ workers[k].category # category_cb

=============================================================================
